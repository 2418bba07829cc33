------------------------------ MODULE MCPlatform ------------------------------
(***************************************************************************)
(* The parts of the platform that do not share state with each other, for  *)
(* TLC: each behaviour is one of one part (the variable "part"), and the   *)
(* others rest in an initial state.                                        *)
(***************************************************************************)
EXTENDS PilotSources, PilotEvidence,
        OutcomeGates, Retention, Access, RateLimiter, EvidenceChain, Backups,
        Migrations, ModelRegistry, UsageBilling, CircuitBreaker, TLC

VARIABLE part

-----------------------------------------------------------------------------
(* Values                                                                  *)

\* ControlRoom: a client claims nothing or everything.
SampleClaims == {{}, Keys}

\* PilotEvidence: it claims the status of no criterion, or of two.
SampleClaimed == {{}, {"impact", "outcome"}}

\* CircuitBreaker: a refused reading and two beyond the threshold.
SampleReadings == {-1, 2, 3}

\* PilotEvidence: nothing yet, a pilot on its way, one about to be accepted.
Found(c, f, life, critical, ready, studies) ==
  [contract |-> c, finance |-> f,
   room |-> [life |-> life, ahead |-> FALSE, critical |-> critical],
   analyses |-> ready, experiments |-> studies]

Study(a, verified, n) == [analysis |-> a, verified |-> verified, outcomes |-> n]

\* In the last one a registration for the first analysis was committed after the
\* second was imported, and already has its outcome.
SampleStarts ==
  {Found("none", "none", "draft", FALSE, <<>>, <<>>),
   Found("draft", "submitted", "outcome_pending", TRUE, <<TRUE>>,
         <<Study(1, FALSE, 0), Study(1, TRUE, 0)>>),
   Found("closed", "verified", "outcome_pending", FALSE, <<TRUE>>,
         <<Study(1, FALSE, 0), Study(1, TRUE, 0)>>),
   Found("approved", "not_verified", "experiment_running", FALSE, <<TRUE, FALSE>>,
         <<Study(1, FALSE, 0), Study(2, FALSE, 0), Study(1, TRUE, 1)>>)}

\* OutcomeGates: four customers; files that are whole, early, late, lopsided,
\* short, contaminated, doubled, unexposed, unsound, foreign or of one arm.
In(c, g, x) == [customer |-> c, group |-> g, exposedAt |-> x, sound |-> TRUE]
Control(c) == In(c, "control", NotExposed)
Offer(c, x) == In(c, "offer", x)

SampleOutcomes ==
  {<<Control("a"), Control("b"), Offer("c", x), Offer("d", y)>> : x, y \in 0..2}
  \cup {<<Control("a"), Offer("b", 1), Offer("c", 1), Offer("d", 1)>>,
        <<Control("a"), Offer("c", 1), Offer("d", 1)>>,
        <<Control("a"), In("b", "control", 1), Offer("c", 1), Offer("d", 1)>>,
        <<Control("a"), Control("a"), Offer("c", 1), Offer("d", 1)>>,
        <<Control("a"), Control("b"), Offer("c", 1), Offer("d", NotExposed)>>,
        <<Control("a"), Control("b"), Offer("c", 1), [Offer("d", 1) EXCEPT !.sound = FALSE]>>,
        <<Control("a"), Control("b"), Offer("c", 1), Offer("x", 1)>>,
        <<Control("a"), Control("b"), Control("c"), Control("d")>>,
        <<Offer("a", 1), Offer("b", 1), Offer("c", 1), Offer("d", 1)>>}

Interval(low, high) == [varies |-> TRUE, low |-> low, high |-> high]

\* A gain, and one thing after another that is not as good.
Gain == [primary |-> Interval(1, 2), revenue |-> Interval(0, 1),
         conversion |-> Interval(0, 1), roi |-> TRUE]

SampleResults ==
  {Gain, [Gain EXCEPT !.roi = FALSE], [Gain EXCEPT !.primary = Interval(-1, 0)],
   [Gain EXCEPT !.primary = Interval(-1, 1)], [Gain EXCEPT !.revenue = Interval(-3, -2)],
   [Gain EXCEPT !.conversion = Interval(-2, 0)], [Gain EXCEPT !.primary.varies = FALSE]}

SampleMargin == -1

\* Retention: a newer row takes the permission back; a product is bought too
\* seldom, or its cycle is not known; an expiry is not understood, a row not sound.
Willing == [consent |-> "granted", optOut |-> "no", channel |-> "allowed", count |-> "under"]

Bought(c, p, txn, at, contact) ==
  [customer |-> c, product |-> p, txn |-> txn, at |-> at, expires |-> at + 1,
   paid |-> TRUE, sound |-> TRUE, timed |-> TRUE, contact |-> contact]

SampleFiles ==
  {<<Bought("a", "x", 1, 1, Willing), Bought("a", "x", 2, 3, [Willing EXCEPT !.optOut = "yes"]),
     Bought("b", "x", 3, 1, Willing), [Bought("b", "x", 4, 3, Willing) EXCEPT !.expires = 0]>>,
   <<Bought("a", "x", 1, 1, Willing), Bought("a", "y", 2, 1, Willing),
     [Bought("a", "x", 3, 3, [Willing EXCEPT !.count = "full"]) EXCEPT !.paid = FALSE],
     Bought("b", "x", 4, 1, Willing), Bought("b", "x", 4, 2, Willing),
     [Bought("b", "x", 5, 1, Willing) EXCEPT !.timed = FALSE]>>,
   <<Bought("a", "x", 1, 1, Willing), [Bought("a", "x", 2, 2, Willing) EXCEPT !.sound = FALSE]>>}

SampleLifecycles ==
  {[due |-> -1, lapsed |-> 1, dormant |-> 2, lost |-> 3, least |-> 2,
    history |-> 1, customers |-> 2, repeat |-> 1],
   [due |-> 0, lapsed |-> 3, dormant |-> 2, lost |-> 6, least |-> 1,
    history |-> 2, customers |-> 2, repeat |-> 1]}

SampleExclusions == {{"a"}}

-----------------------------------------------------------------------------
(* One part at a time                                                      *)

Rests(p) == part # p

\* The pages of the workbench are alike: of the starts that differ only in which
\* page is which, one is enough.
StandsForAll(shown) ==
  shown = CHOOSE f \in {[p \in Pages |-> shown[alike[p]]] : alike \in Permutations(Pages)} : TRUE

\* What a part that rests shows is one of its initial states.
PlatformInit ==
  /\ part \in {"contract", "ledger", "room", "evidence", "workbench", "gates", "retention",
               "access", "limiter", "chain", "backups", "migrations", "models", "usage",
               "breaker"}
  /\ ContractInit /\ LedgerInit /\ RoomInit /\ GatesInit /\ AccessInit /\ LimiterInit
  /\ BackupInit /\ RegistryInit /\ UsageInit /\ RetentionInit
  /\ Init
  /\ ChainInit /\ (Rests("chain") => book = "audit")
  /\ EvidenceInit /\ (Rests("evidence") => sources.contract = "none")
  /\ MigrationInit /\ (Rests("migrations") => \A s \in Starters :
                        /\ starter[s].mode = "script"
                        /\ starter[s].release = [v \in Versions |-> CHOOSE c \in Checksums : TRUE])
  /\ WorkbenchInit /\ StandsForAll(rendered) /\ (Rests("workbench") => kind = "room" /\ records = <<>>)

\* Everything but the part rests.
OthersRest ==
  /\ UNCHANGED part
  /\ IF Rests("contract") THEN UNCHANGED contracts ELSE TRUE
  /\ IF Rests("ledger") THEN UNCHANGED ledgers ELSE TRUE
  /\ IF Rests("room") THEN UNCHANGED workflows ELSE TRUE
  /\ IF Rests("evidence") THEN UNCHANGED evidenceVars ELSE TRUE
  /\ IF Rests("workbench") THEN UNCHANGED workbenchVars ELSE TRUE
  /\ IF Rests("gates") THEN UNCHANGED gateVars ELSE TRUE
  /\ IF Rests("retention") THEN UNCHANGED retentionVars ELSE TRUE
  /\ IF Rests("access") THEN UNCHANGED accessVars ELSE TRUE
  /\ IF Rests("limiter") THEN UNCHANGED limiterVars ELSE TRUE
  /\ IF Rests("chain") THEN UNCHANGED chainVars ELSE TRUE
  /\ IF Rests("backups") THEN UNCHANGED backupVars ELSE TRUE
  /\ IF Rests("migrations") THEN UNCHANGED migrationVars ELSE TRUE
  /\ IF Rests("models") THEN UNCHANGED registryVars ELSE TRUE
  /\ IF Rests("usage") THEN UNCHANGED usageVars ELSE TRUE
  /\ IF Rests("breaker") THEN UNCHANGED vars ELSE TRUE

\* Bounds: days, further backups and verifications pass on a platform without files;
\* one backup runs beside the imports and removals of one file.
Apart ==
  \/ used = {}
  \/ backups = [b \in Stamps |-> Unbegun]
  \/ /\ date = 0 /\ verifier = VerifierIdle /\ \A b \in Stamps : b > 1 => backups[b] = Unbegun
     /\ Cardinality(used) = 1

\* Bound: examples and events, which no report reads, are kept while no run is.
NoRunsBeside == (examples = <<>> /\ events = <<>>) \/ running \cup runLogs = {}

PlatformNext ==
  \/ part = "contract" /\ ContractNext /\ OthersRest
  \/ part = "ledger" /\ LedgerNext /\ OthersRest
  \/ part = "room" /\ RoomNext /\ OthersRest
  \/ part = "evidence" /\ EvidenceNext /\ OthersRest
  \/ part = "workbench" /\ WorkbenchNext /\ OthersRest
  \/ part = "gates" /\ GatesNext /\ OthersRest
  \/ part = "retention" /\ RetentionNext /\ OthersRest
  \/ part = "access" /\ AccessNext /\ OthersRest
  \/ part = "limiter" /\ LimiterNext /\ OthersRest
  \/ part = "chain" /\ ChainNext /\ OthersRest
  \/ part = "backups" /\ BackupNext /\ Apart' /\ OthersRest
  \/ part = "migrations" /\ MigrationNext /\ OthersRest
  \/ part = "models" /\ RegistryNext /\ OthersRest
  \/ part = "usage" /\ UsageNext /\ NoRunsBeside' /\ OthersRest
  \/ part = "breaker" /\ Next /\ OthersRest

platformVars == <<part, contracts, ledgers, workflows, evidenceVars, workbenchVars, gateVars,
                  retentionVars, accessVars, limiterVars, chainVars, backupVars,
                  migrationVars, registryVars, usageVars, vars>>

PlatformSpec == PlatformInit /\ [][PlatformNext]_platformVars

-----------------------------------------------------------------------------
(* Properties                                                              *)

\* Every part's state is of its type; among it: sessions belong to members, logs
\* and histories keep within their limits, statuses are known ones.
PlatformTypeOK ==
  /\ RecordsTypeOK /\ EvidenceTypeOK /\ WorkbenchTypeOK /\ GatesTypeOK /\ RetentionTypeOK
  /\ AccessTypeOK /\ LimiterTypeOK /\ BackupTypeOK /\ MigrationTypeOK
  /\ RegistryTypeOK /\ UsageTypeOK /\ TypeOK

=============================================================================
