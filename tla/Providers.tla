----------------------------- MODULE Providers -----------------------------
(***************************************************************************)
(* LLM calls of the agent workers: ProviderRouter picks a primary and a    *)
(* fallback model among those whose provider's circuit is not open,        *)
(* ReliableLlm retries and falls back, and the outcome of the logical call *)
(* moves the circuit.  The rows of provider_circuit_state are read and     *)
(* written without a lock.                                                 *)
(***************************************************************************)
EXTENDS Naturals, FiniteSets

CONSTANTS
  Models,      \* enabled models that satisfy the role's requirements
  ProviderOf,  \* the provider of a model
  Preferred,   \* models tagged high_quality
  Callers,     \* worker processes, one agent of each
  NoModel,
  Threshold,   \* DEFAULT_FAILURE_THRESHOLD
  MaxRetries,  \* DEFAULT_MAX_RETRIES
  MaxOutages   \* bound: reads of the telemetry database that fail

Providers == {ProviderOf[m] : m \in Models}

ASSUME ProvidersConstants ==
  /\ NoModel \notin Models
  /\ Preferred \subseteq Models
  /\ Threshold \in Nat \ {0}
  /\ MaxRetries \in Nat
  /\ MaxOutages \in Nat

VARIABLES
  circuit,  \* provider_circuit_state
  caller,   \* each process: its selection, its call, what it read of a circuit
  streak,   \* history: trip-worthy failures recorded since the last success
  skewed,   \* history: a circuit written on an outdated reading, until the next success
  outages   \* telemetry reads that failed

providerVars == <<circuit, caller, streak, skewed, outages>>

Outcomes == {"ok", "trip", "other", "cancelled"}

\* Selecting; about to begin a trial; between two calls; calling; the outcome is
\* to be recorded; the circuit's row was read for it.
Phases == {"idle", "select", "trial", "ready", "call", "record", "write"}

NoRow == [state |-> "closed", failures |-> 0]
Idle == [at |-> "idle", todo |-> {}, alive |-> {}, model |-> NoModel, fallback |-> NoModel,
         used |-> FALSE, tries |-> 0, outcome |-> "ok", read |-> NoRow, stale |-> FALSE,
         cache |-> FALSE]

Upto(n) == 0..n

ProvidersTypeOK ==
  /\ circuit \in [Providers -> [state : {"closed", "open", "half_open"},
                                failures : Upto(Threshold), cooled : BOOLEAN]]
  /\ caller \in [Callers ->
       [at : Phases, todo : SUBSET Models, alive : SUBSET Models,
        model : Models \cup {NoModel}, fallback : Models \cup {NoModel}, used : BOOLEAN,
        tries : Upto(MaxRetries), outcome : Outcomes,
        read : [state : {"closed", "open", "half_open"}, failures : Upto(Threshold)],
        stale : BOOLEAN, cache : BOOLEAN]]
  /\ streak \in [Providers -> Upto(Threshold)]
  /\ skewed \in [Providers -> BOOLEAN]
  /\ outages \in Upto(MaxOutages)

ProvidersInit ==
  /\ circuit = [p \in Providers |-> [state |-> "closed", failures |-> 0, cooled |-> FALSE]]
  /\ caller = [c \in Callers |-> Idle]
  /\ streak = [p \in Providers |-> 0]
  /\ skewed = [p \in Providers |-> FALSE]
  /\ outages = 0

-----------------------------------------------------------------------------
\* The model whose provider the caller probes, calls or reports.
Target(c) ==
  IF caller[c].used THEN caller[c].fallback ELSE caller[c].model

Own(c, r) == caller' = [caller EXCEPT ![c] = r]

\* Failure counts above the threshold behave like the threshold.
Capped(n) == IF n > Threshold THEN Threshold ELSE n

\* The row of p becomes "row": those that have read it hold an outdated reading.
Write(c, p, row, r) ==
  /\ circuit' = [circuit EXCEPT ![p] = row]
  /\ caller' = [d \in Callers |->
                  IF d = c THEN r
                  ELSE IF caller[d].at \in {"trial", "write"} /\ ProviderOf[Target(d)] = p
                    THEN [caller[d] EXCEPT !.stale = TRUE]
                  ELSE caller[d]]

-----------------------------------------------------------------------------
(* Selection: ProviderRouter.select                                        *)

BeginSelect(c) ==
  /\ caller[c].at = "idle"
  /\ Own(c, [caller[c] EXCEPT !.at = "select", !.todo = Models])
  /\ UNCHANGED <<circuit, streak, skewed, outages>>

Probed(c, m, survives) ==
  [caller[c] EXCEPT !.at = "select", !.todo = @ \ {m}, !.model = NoModel, !.stale = FALSE,
                    !.alive = IF survives THEN @ \cup {m} ELSE @]

\* Mutation: an open circuit stays open, whatever the time.
ProbeForever(c, m) ==
  /\ caller[c].at = "select" /\ m \in caller[c].todo /\ ~caller[c].cache
  /\ Own(c, Probed(c, m, circuit[ProviderOf[m]].state # "open"))
  /\ UNCHANGED <<circuit, streak, skewed, outages>>

\* Mutation: the cooldown is not looked at.
ProbeImpatient(c, m) ==
  LET row == circuit[ProviderOf[m]]
  IN  /\ caller[c].at = "select" /\ m \in caller[c].todo /\ ~caller[c].cache
      /\ Own(c, IF row.state = "open" THEN [caller[c] EXCEPT !.at = "trial", !.model = m]
                ELSE Probed(c, m, TRUE))
      /\ UNCHANGED <<circuit, streak, skewed, outages>>

\* is_open, its read: half-open is not open; an open circuit that has cooled down
\* begins its trial in a second step.
Probe(c, m) ==
  LET row == circuit[ProviderOf[m]]
  IN  /\ caller[c].at = "select" /\ m \in caller[c].todo /\ ~caller[c].cache
      /\ Own(c, IF row.state = "open" /\ row.cooled
                  THEN [caller[c] EXCEPT !.at = "trial", !.model = m]
                ELSE Probed(c, m, row.state # "open"))
      /\ UNCHANGED <<circuit, streak, skewed, outages>>

\* is_open, its write.
BeginTrial(c) ==
  LET m == caller[c].model
      p == ProviderOf[m]
  IN  /\ caller[c].at = "trial"
      /\ Write(c, p, [circuit[p] EXCEPT !.state = "half_open"], Probed(c, m, TRUE))
      /\ skewed' = [skewed EXCEPT ![p] = @ \/ caller[c].stale]
      /\ UNCHANGED <<streak, outages>>

\* The Availability Cache: while it lasts, no circuit is read and all count as closed.
ProbeCached(c, m) ==
  /\ caller[c].at = "select" /\ m \in caller[c].todo /\ caller[c].cache
  /\ Own(c, Probed(c, m, TRUE))
  /\ UNCHANGED <<circuit, streak, skewed, outages>>

\* The telemetry database is out of reach.
ProbeFails(c, m) ==
  /\ outages < MaxOutages
  /\ \/ caller[c].at = "select" /\ m \in caller[c].todo /\ ~caller[c].cache
     \/ caller[c].at = "trial" /\ m = caller[c].model
  /\ Own(c, [Probed(c, m, TRUE) EXCEPT !.cache = TRUE])
  /\ outages' = outages + 1
  /\ UNCHANGED <<circuit, streak, skewed>>

CacheExpires(c) ==
  /\ caller[c].cache
  /\ Own(c, [caller[c] EXCEPT !.cache = FALSE])
  /\ UNCHANGED <<circuit, streak, skewed, outages>>

\* The policies rank by priority, cost, context or logged latency and shuffle ties:
\* any order.  highest_quality leaves untagged models out when it can.
Pools(S) == {S, S \cap Preferred} \ {{}}

\* get_model: the two best are primary and fallback.
Choose(c) ==
  /\ caller[c].at = "select" /\ caller[c].todo = {}
  /\ \E pool \in Pools(caller[c].alive) : \E m \in pool :
       \E f \in IF pool = {m} THEN {NoModel} ELSE pool \ {m} :
         Own(c, [Idle EXCEPT !.at = "ready", !.model = m, !.fallback = f,
                             !.cache = caller[c].cache])
  /\ UNCHANGED <<circuit, streak, skewed, outages>>

\* NoProviderAvailableError
NoProvider(c) ==
  /\ caller[c].at = "select" /\ caller[c].todo = {} /\ caller[c].alive = {}
  /\ Own(c, [Idle EXCEPT !.cache = caller[c].cache])
  /\ UNCHANGED <<circuit, streak, skewed, outages>>

-----------------------------------------------------------------------------
(* The call: ReliableLlm.generate_content_async                            *)

BeginCall(c) ==
  /\ caller[c].at = "ready"
  /\ Own(c, [caller[c] EXCEPT !.at = "call"])
  /\ UNCHANGED <<circuit, streak, skewed, outages>>

\* The agents of the run are through.
Leave(c) ==
  /\ caller[c].at = "ready"
  /\ Own(c, [Idle EXCEPT !.cache = caller[c].cache])
  /\ UNCHANGED <<circuit, streak, skewed, outages>>

Ended(c, outcome) == [caller[c] EXCEPT !.at = "record", !.outcome = outcome, !.tries = 0]

\* The model answers, in a form that validates.
Answer(c) ==
  /\ caller[c].at = "call"
  /\ Own(c, Ended(c, "ok"))
  /\ UNCHANGED <<circuit, streak, skewed, outages>>

\* An authentication error is neither retried nor handed to the fallback.
Rejected(c) ==
  /\ caller[c].at = "call"
  /\ Own(c, Ended(c, "other"))
  /\ UNCHANGED <<circuit, streak, skewed, outages>>

\* Mutation: one retry more than allowed.
AttemptFailsOnceMore(c, why) ==
  /\ caller[c].at = "call"
  /\ why \in {"trip", "other"}
  /\ Own(c, IF caller[c].tries <= MaxRetries THEN [caller[c] EXCEPT !.tries = @ + 1]
            ELSE IF caller[c].fallback # NoModel /\ ~caller[c].used
              THEN [caller[c] EXCEPT !.used = TRUE, !.tries = 0]
            ELSE Ended(c, why))
  /\ UNCHANGED <<circuit, streak, skewed, outages>>

\* A timeout or an unavailable provider ("trip"); a rate limit or an invalid schema
\* ("other").  Retries, then the fallback with retries of its own, then failure.
AttemptFails(c, why) ==
  /\ caller[c].at = "call"
  /\ why \in {"trip", "other"}
  /\ Own(c, IF caller[c].tries < MaxRetries THEN [caller[c] EXCEPT !.tries = @ + 1]
            ELSE IF caller[c].fallback # NoModel /\ ~caller[c].used
              THEN [caller[c] EXCEPT !.used = TRUE, !.tries = 0]
            ELSE Ended(c, why))
  /\ UNCHANGED <<circuit, streak, skewed, outages>>

\* A parallel agent failed: this one is cancelled, and its finally block records it.
Cancel(c) ==
  /\ caller[c].at = "call"
  /\ Own(c, Ended(c, "cancelled"))
  /\ UNCHANGED <<circuit, streak, skewed, outages>>

-----------------------------------------------------------------------------
(* The outcome: record_outcome                                             *)

\* success is "final_error is None".
Success(outcome) == outcome \in {"ok", "cancelled"}

Recorded(c) == [caller[c] EXCEPT !.at = "ready", !.used = FALSE, !.outcome = "ok",
                                 !.read = NoRow, !.stale = FALSE]

\* Mutation: a success closes the circuit and keeps the count.
RecordSuccessKeeping(c) ==
  LET p == ProviderOf[Target(c)]
  IN  /\ caller[c].at = "record" /\ Success(caller[c].outcome)
      /\ Write(c, p, [circuit[p] EXCEPT !.state = "closed", !.cooled = FALSE], Recorded(c))
      /\ streak' = [streak EXCEPT ![p] = 0]
      /\ skewed' = [skewed EXCEPT ![p] = FALSE]
      /\ UNCHANGED outages

\* Whatever the state was.
RecordSuccess(c) ==
  LET p == ProviderOf[Target(c)]
  IN  /\ caller[c].at = "record" /\ Success(caller[c].outcome)
      /\ Write(c, p, [state |-> "closed", failures |-> 0, cooled |-> FALSE], Recorded(c))
      /\ streak' = [streak EXCEPT ![p] = 0]
      /\ skewed' = [skewed EXCEPT ![p] = FALSE]
      /\ UNCHANGED outages

\* A failure that is not trip-worthy touches nothing.
RecordOther(c) ==
  /\ caller[c].at = "record" /\ caller[c].outcome = "other"
  /\ Own(c, Recorded(c))
  /\ UNCHANGED <<circuit, streak, skewed, outages>>

ReadCircuit(c) ==
  LET row == circuit[ProviderOf[Target(c)]]
  IN  /\ caller[c].at = "record" /\ caller[c].outcome = "trip"
      /\ Own(c, [caller[c] EXCEPT !.at = "write",
                   !.read = [state |-> row.state, failures |-> row.failures]])
      /\ UNCHANGED <<circuit, streak, skewed, outages>>

\* A failed trial or the threshold opens the circuit; otherwise only the count is written.
WriteFailure(c) ==
  LET p == ProviderOf[Target(c)]
      n == Capped(caller[c].read.failures + 1)
      opens == caller[c].read.state = "half_open" \/ n >= Threshold
  IN  /\ caller[c].at = "write"
      /\ Write(c, p, [state |-> IF opens THEN "open" ELSE circuit[p].state, failures |-> n,
                      cooled |-> IF opens THEN FALSE ELSE circuit[p].cooled], Recorded(c))
      /\ streak' = [streak EXCEPT ![p] = Capped(@ + 1)]
      /\ skewed' = [skewed EXCEPT ![p] = @ \/ caller[c].stale]
      /\ UNCHANGED outages

\* The sink swallows an error of the telemetry database.
OutcomeLost(c) ==
  /\ outages < MaxOutages
  /\ caller[c].at \in {"record", "write"}
  /\ Own(c, Recorded(c))
  /\ outages' = outages + 1
  /\ UNCHANGED <<circuit, streak, skewed>>

\* An open circuit's cooldown is over.
Cool(p) ==
  /\ circuit[p].state = "open" /\ ~circuit[p].cooled
  /\ circuit' = [circuit EXCEPT ![p].cooled = TRUE]
  /\ UNCHANGED <<caller, streak, skewed, outages>>

-----------------------------------------------------------------------------
ProvidersNext ==
  \/ \E c \in Callers :
       \/ BeginSelect(c) \/ BeginTrial(c) \/ CacheExpires(c) \/ Choose(c) \/ NoProvider(c)
       \/ BeginCall(c) \/ Leave(c) \/ Answer(c) \/ Rejected(c) \/ Cancel(c)
       \/ RecordSuccess(c) \/ RecordOther(c) \/ ReadCircuit(c) \/ WriteFailure(c) \/ OutcomeLost(c)
  \/ \E c \in Callers, m \in Models : Probe(c, m) \/ ProbeCached(c, m) \/ ProbeFails(c, m)
  \/ \E c \in Callers, why \in {"trip", "other"} : AttemptFails(c, why)
  \/ \E p \in Providers : Cool(p)

ProvidersSpec == ProvidersInit /\ [][ProvidersNext]_providerVars

\* Time passes; a process goes on with what it began, a run of the agents ends and
\* another one begins.
ProvidersFairness ==
  /\ \A p \in Providers : WF_providerVars(Cool(p))
  /\ \A c \in Callers :
       /\ WF_providerVars(BeginSelect(c)) /\ WF_providerVars(BeginTrial(c))
       /\ WF_providerVars(CacheExpires(c))
       /\ WF_providerVars(Choose(c) \/ NoProvider(c))
       /\ WF_providerVars(\E m \in Models : Probe(c, m) \/ ProbeCached(c, m))
       /\ WF_providerVars(Answer(c) \/ Rejected(c) \/ Cancel(c) \/ AttemptFails(c, "trip")
                            \/ AttemptFails(c, "other"))
       /\ WF_providerVars(RecordSuccess(c) \/ RecordOther(c) \/ ReadCircuit(c) \/ WriteFailure(c))
       /\ SF_providerVars(Leave(c))

-----------------------------------------------------------------------------
(* Properties                                                              *)

\* circuit_breaker.py "N consecutive trip-worthy failures": the circuit counts the
\* failures that were recorded since the last success and is closed exactly while
\* they are fewer than the threshold, until a row is written on an outdated reading,
\* and again after the next success.
FailuresCounted ==
  \A p \in Providers :
    skewed[p] \/ /\ circuit[p].failures = streak[p]
                 /\ circuit[p].state = "closed" <=> streak[p] < Threshold

\* "OPEN --[cooldown elapses]--> HALF_OPEN": a circuit is tried before its cooldown
\* is over only by a caller whose reading another one had outdated.
NoEarlyTrial ==
  [][\A p \in Providers :
       circuit[p].state = "open" /\ circuit'[p].state = "half_open" =>
         circuit[p].cooled \/ \E c \in Callers : caller[c].at = "trial" /\ caller[c].stale]_circuit

\* A circuit that opened is given its trial (or is closed by a call that was under
\* way): a provider is not shut out for good.
OpenGetsTrial ==
  \A p \in Providers : circuit[p].state = "open" ~> circuit[p].state # "open"
=============================================================================
