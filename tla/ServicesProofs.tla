--------------------------- MODULE ServicesProofs ---------------------------
(***************************************************************************)
(* Proofs about Providers, for every set of models, providers and callers, *)
(* every threshold and every number of retries; and about Providers beside *)
(* EventStream, as MCServices has them.                                    *)
(***************************************************************************)
EXTENDS MCServices, EventStreamProofs

Row == [state : {"closed", "open", "half_open"}, failures : Upto(Threshold), cooled : BOOLEAN]

Process ==
  [at : Phases, todo : SUBSET Models, alive : SUBSET Models,
   model : Models \cup {NoModel}, fallback : Models \cup {NoModel}, used : BOOLEAN,
   tries : Upto(MaxRetries), outcome : Outcomes,
   read : [state : {"closed", "open", "half_open"}, failures : Upto(Threshold)],
   stale : BOOLEAN, cache : BOOLEAN]

Aim(r) == IF r.used THEN r.fallback ELSE r.model

\* A process that tries, calls or reports knows a model; only a call falls back, and
\* only the reading of a circuit is outdated.
Knows(r) ==
  /\ r.used => r.at \in {"call", "record", "write"} /\ r.fallback \in Models
  /\ r.at \in {"trial", "ready", "call", "record", "write"} => r.model \in Models
  /\ r.stale => r.at \in {"trial", "write"}

\* What it read of the circuit is what is stored, unless the reading is outdated.
Reads(r, table) ==
  ~r.stale =>
    /\ r.at = "trial" => table[ProviderOf[Aim(r)]].state = "open" /\ table[ProviderOf[Aim(r)]].cooled
    /\ r.at = "write" => /\ table[ProviderOf[Aim(r)]].state = r.read.state
                         /\ table[ProviderOf[Aim(r)]].failures = r.read.failures

CallersInv == \A c \in Callers : Knows(caller[c]) /\ Reads(caller[c], circuit)

ProvidersInv == ProvidersTypeOK /\ CallersInv /\ FailuresCounted

-----------------------------------------------------------------------------
\* A process that changes its own mind only.
LEMMA OwnKeeps ==
  ASSUME ProvidersInv, NEW c \in Callers, NEW r \in Process, Knows(r), Reads(r, circuit), Own(c, r),
         UNCHANGED <<circuit, streak, skewed>>, outages' \in Upto(MaxOutages)
  PROVE  ProvidersInv'
<1>1. caller \in [Callers -> Process]
  BY DEF ProvidersInv, ProvidersTypeOK, Process
<1>2. /\ caller' \in [Callers -> Process] /\ caller'[c] = r
      /\ \A d \in Callers : d # c => caller'[d] = caller[d]
  BY <1>1 DEF Own
<1>3. ProvidersTypeOK'
  BY <1>2 DEF ProvidersInv, ProvidersTypeOK, Process
<1>4. CallersInv'
  BY <1>2 DEF ProvidersInv, CallersInv
<1>5. FailuresCounted'
  BY DEF ProvidersInv, FailuresCounted
<1> QED BY <1>3, <1>4, <1>5 DEF ProvidersInv

\* A row that is written outdates what the others read of it.
LEMMA WriteKeeps ==
  ASSUME ProvidersInv, NEW c \in Callers, NEW r \in Process, Knows(r), r.at \notin {"trial", "write"},
         NEW p \in Providers, NEW row \in Row, Write(c, p, row, r)
  PROVE  /\ circuit' \in [Providers -> Row] /\ caller' \in [Callers -> Process]
         /\ CallersInv'
<1>1. caller \in [Callers -> Process] /\ circuit \in [Providers -> Row]
  BY DEF ProvidersInv, ProvidersTypeOK, Process, Row
<1>2. circuit' \in [Providers -> Row] /\ \A q \in Providers : q # p => circuit'[q] = circuit[q]
  BY <1>1 DEF Write
<1>3. ASSUME NEW d \in Callers
      PROVE  caller'[d] \in Process /\ Knows(caller'[d]) /\ Reads(caller'[d], circuit')
  <2>1. CASE d = c
    BY <2>1 DEF Write, Knows, Reads
  <2>2. CASE d # c /\ caller[d].at \in {"trial", "write"} /\ ProviderOf[Target(d)] = p
    <3>1. caller'[d] = [caller[d] EXCEPT !.stale = TRUE]
      BY <2>2 DEF Write
    <3>2. caller[d] \in Process /\ Knows(caller[d])
      BY <1>1 DEF ProvidersInv, CallersInv
    <3>3. /\ caller'[d] \in Process /\ caller'[d].stale = TRUE
          /\ caller'[d].at = caller[d].at /\ caller'[d].used = caller[d].used
          /\ caller'[d].model = caller[d].model /\ caller'[d].fallback = caller[d].fallback
      BY <3>1, <3>2 DEF Process
    <3> QED BY <2>2, <3>2, <3>3 DEF Knows, Reads
  <2>3. CASE d # c /\ ~(caller[d].at \in {"trial", "write"} /\ ProviderOf[Target(d)] = p)
    <3>1. caller'[d] = caller[d]
      BY <2>3 DEF Write
    <3>2. caller[d] \in Process /\ Knows(caller[d]) /\ Reads(caller[d], circuit)
      BY <1>1 DEF ProvidersInv, CallersInv
    <3>3. Target(d) = Aim(caller[d])
      BY DEF Target, Aim
    <3>4. CASE caller[d].at \in {"trial", "write"}
      <4>1. Aim(caller[d]) \in Models
        BY <3>2, <3>4 DEF Knows, Aim
      <4>2. ProviderOf[Aim(caller[d])] \in Providers \ {p}
        BY <2>3, <3>3, <3>4, <4>1 DEF Providers
      <4>3. circuit'[ProviderOf[Aim(caller[d])]] = circuit[ProviderOf[Aim(caller[d])]]
        BY <1>2, <4>2
      <4> QED BY <3>1, <3>2, <4>3 DEF Reads
    <3>5. CASE caller[d].at \notin {"trial", "write"}
      BY <3>1, <3>2, <3>5 DEF Reads
    <3> QED BY <3>4, <3>5
  <2> QED BY <2>1, <2>2, <2>3
<1>4. caller' \in [Callers -> Process]
  BY <1>3 DEF Write
<1>5. CallersInv'
  BY <1>3 DEF CallersInv
<1> QED BY <1>2, <1>4, <1>5

-----------------------------------------------------------------------------
\* The processes' own steps and the writes of the circuit keep the invariant.
LEMMA CallerStep ==
  ASSUME ProvidersInv, ProvidersNext
  PROVE  ProvidersInv'
<1>z. 0 \in Upto(MaxRetries) /\ 0 \in Upto(Threshold)
  BY ProvidersConstants DEF Upto
<1>t. /\ caller \in [Callers -> Process] /\ circuit \in [Providers -> Row]
      /\ streak \in [Providers -> Upto(Threshold)] /\ skewed \in [Providers -> BOOLEAN]
      /\ outages \in Upto(MaxOutages)
  BY DEF ProvidersInv, ProvidersTypeOK, Process, Row
<1>k. \A c \in Callers : caller[c] \in Process /\ Knows(caller[c]) /\ Reads(caller[c], circuit)
  BY <1>t DEF ProvidersInv, CallersInv
<1>i. Idle \in Process
  BY <1>z DEF Idle, Process, Phases, Outcomes, NoRow
<1>p. ASSUME NEW c \in Callers, NEW m \in Models, NEW survives \in BOOLEAN
      PROVE  /\ Probed(c, m, survives) \in Process /\ Probed(c, m, survives).at = "select"
             /\ caller[c].at \in {"select", "trial"} => Knows(Probed(c, m, survives))
             /\ Reads(Probed(c, m, survives), circuit)
  BY <1>k DEF Probed, Process, Phases, Knows, Reads
<1>e. ASSUME NEW c \in Callers, caller[c].at = "call", NEW o \in Outcomes
      PROVE  Ended(c, o) \in Process /\ Knows(Ended(c, o)) /\ Reads(Ended(c, o), circuit)
  <2>1. Ended(c, o) \in Process
    BY <1>k, <1>z DEF Ended, Process, Phases
  <2>2. /\ Ended(c, o).at = "record" /\ Ended(c, o).used = caller[c].used
        /\ Ended(c, o).stale = caller[c].stale /\ Ended(c, o).model = caller[c].model
        /\ Ended(c, o).fallback = caller[c].fallback
    BY <1>k DEF Ended, Process
  <2> QED BY <1>e, <1>k, <2>1, <2>2 DEF Knows, Reads
<1>r. ASSUME NEW c \in Callers, caller[c].at \in {"record", "write"}
      PROVE  /\ Recorded(c) \in Process /\ Knows(Recorded(c)) /\ Reads(Recorded(c), circuit)
             /\ Recorded(c).at = "ready" /\ Target(c) \in Models /\ ProviderOf[Target(c)] \in Providers
  <2>1. Recorded(c) \in Process /\ Knows(Recorded(c)) /\ Reads(Recorded(c), circuit) /\ Recorded(c).at = "ready"
    <3>1. Recorded(c) \in Process
      BY <1>k, <1>z DEF Recorded, Process, Phases, Outcomes, NoRow
    <3>2. /\ Recorded(c).at = "ready" /\ Recorded(c).used = FALSE /\ Recorded(c).stale = FALSE
          /\ Recorded(c).model = caller[c].model
      BY <1>k DEF Recorded, Process
    <3> QED BY <1>r, <1>k, <3>1, <3>2 DEF Knows, Reads
  <2>2. Target(c) \in Models
    BY <1>r, <1>k DEF Target, Knows
  <2> QED BY <2>1, <2>2 DEF Providers
<1>1. ASSUME NEW c \in Callers, BeginSelect(c) PROVE ProvidersInv'
  <2> DEFINE r == [caller[c] EXCEPT !.at = "select", !.todo = Models]
  <2>1. r \in Process /\ Knows(r) /\ Reads(r, circuit)
    <3>1. r \in Process
      BY <1>k DEF Process, Phases
    <3>2. r.at = "select" /\ r.used = caller[c].used /\ r.stale = caller[c].stale
      BY <1>k DEF Process
    <3> QED BY <1>1, <1>k, <3>1, <3>2 DEF BeginSelect, Knows, Reads
  <2> QED BY <1>1, <1>t, <2>1, OwnKeeps DEF BeginSelect
<1>2. ASSUME NEW c \in Callers, NEW m \in Models, Probe(c, m) PROVE ProvidersInv'
  <2> DEFINE q == ProviderOf[m]
             r == [caller[c] EXCEPT !.at = "trial", !.model = m]
  <2>1. CASE circuit[q].state = "open" /\ circuit[q].cooled
    <3>1. r \in Process /\ Knows(r) /\ Reads(r, circuit)
      BY <1>2, <1>k, <2>1 DEF Probe, Process, Phases, Knows, Reads, Aim
    <3> QED BY <1>2, <1>t, <2>1, <3>1, OwnKeeps DEF Probe
  <2>2. CASE ~(circuit[q].state = "open" /\ circuit[q].cooled)
    <3> DEFINE b == circuit[q].state # "open"
    <3>1. b \in BOOLEAN
      OBVIOUS
    <3>2. Own(c, Probed(c, m, b)) /\ UNCHANGED <<circuit, streak, skewed, outages>>
          /\ caller[c].at = "select"
      BY <1>2, <2>2 DEF Probe
    <3> HIDE DEF b
    <3> QED BY <1>t, <1>p, <3>1, <3>2, OwnKeeps
  <2> QED BY <2>1, <2>2
<1>3. ASSUME NEW c \in Callers, NEW m \in Models, ProbeCached(c, m) PROVE ProvidersInv'
  BY <1>3, <1>t, <1>p, OwnKeeps DEF ProbeCached
<1>4. ASSUME NEW c \in Callers, NEW m \in Models, ProbeFails(c, m) PROVE ProvidersInv'
  <2> DEFINE r == [Probed(c, m, TRUE) EXCEPT !.cache = TRUE]
  <2>1. Probed(c, m, TRUE) \in Process /\ Knows(Probed(c, m, TRUE)) /\ Probed(c, m, TRUE).at = "select"
    BY <1>4, <1>p DEF ProbeFails
  <2>2. r \in Process /\ Knows(r) /\ Reads(r, circuit)
    BY <2>1 DEF Process, Knows, Reads
  <2>3. outages' \in Upto(MaxOutages)
    BY <1>4, <1>t, ProvidersConstants DEF ProbeFails, Upto
  <2> QED BY <1>4, <2>2, <2>3, OwnKeeps DEF ProbeFails
<1>5. ASSUME NEW c \in Callers, CacheExpires(c) PROVE ProvidersInv'
  <2> DEFINE r == [caller[c] EXCEPT !.cache = FALSE]
  <2>1. r \in Process /\ Knows(r) /\ Reads(r, circuit)
    BY <1>k DEF Process, Knows, Reads, Aim
  <2> QED BY <1>5, <1>t, <2>1, OwnKeeps DEF CacheExpires
<1>6. ASSUME NEW c \in Callers, Choose(c) PROVE ProvidersInv'
  <2>1. PICK m \in Models, f \in Models \cup {NoModel} :
          Own(c, [Idle EXCEPT !.at = "ready", !.model = m, !.fallback = f, !.cache = caller[c].cache])
    <3>1. PICK pool \in Pools(caller[c].alive) : \E m \in pool :
            \E f \in IF pool = {m} THEN {NoModel} ELSE pool \ {m} :
              Own(c, [Idle EXCEPT !.at = "ready", !.model = m, !.fallback = f,
                                  !.cache = caller[c].cache])
      BY <1>6 DEF Choose
    <3>2. pool \subseteq Models
      BY <1>k DEF Pools, Process
    <3> QED BY <3>1, <3>2
  <2> DEFINE r == [Idle EXCEPT !.at = "ready", !.model = m, !.fallback = f, !.cache = caller[c].cache]
  <2>2. r \in Process /\ Knows(r) /\ Reads(r, circuit)
    BY <1>k, <1>i DEF Process, Phases, Knows, Reads, Idle
  <2> QED BY <1>6, <1>t, <2>1, <2>2, OwnKeeps DEF Choose
<1>7. ASSUME NEW c \in Callers, NoProvider(c) \/ Leave(c) PROVE ProvidersInv'
  <2> DEFINE r == [Idle EXCEPT !.cache = caller[c].cache]
  <2>1. r \in Process /\ Knows(r) /\ Reads(r, circuit)
    BY <1>k, <1>i DEF Process, Knows, Reads, Idle
  <2> QED BY <1>7, <1>t, <2>1, OwnKeeps DEF NoProvider, Leave
<1>8. ASSUME NEW c \in Callers, BeginCall(c) PROVE ProvidersInv'
  <2> DEFINE r == [caller[c] EXCEPT !.at = "call"]
  <2>1. r \in Process /\ Knows(r) /\ Reads(r, circuit)
    BY <1>8, <1>k DEF BeginCall, Process, Phases, Knows, Reads
  <2> QED BY <1>8, <1>t, <2>1, OwnKeeps DEF BeginCall
<1>9. ASSUME NEW c \in Callers, Answer(c) PROVE ProvidersInv'
  BY <1>9, <1>t, <1>e, OwnKeeps DEF Answer, Outcomes
<1>10. ASSUME NEW c \in Callers, Rejected(c) PROVE ProvidersInv'
  BY <1>10, <1>t, <1>e, OwnKeeps DEF Rejected, Outcomes
<1>11. ASSUME NEW c \in Callers, Cancel(c) PROVE ProvidersInv'
  BY <1>11, <1>t, <1>e, OwnKeeps DEF Cancel, Outcomes
<1>12. ASSUME NEW c \in Callers, NEW why \in {"trip", "other"}, AttemptFails(c, why) PROVE ProvidersInv'
  <2>1. CASE caller[c].tries < MaxRetries
    <3> DEFINE r == [caller[c] EXCEPT !.tries = @ + 1]
    <3>1. r \in Process /\ Knows(r) /\ Reads(r, circuit)
      BY <1>12, <1>k, <2>1, ProvidersConstants DEF AttemptFails, Process, Knows, Reads, Upto
    <3> QED BY <1>12, <1>t, <2>1, <3>1, OwnKeeps DEF AttemptFails
  <2>2. CASE ~(caller[c].tries < MaxRetries) /\ caller[c].fallback # NoModel /\ ~caller[c].used
    <3> DEFINE r == [caller[c] EXCEPT !.used = TRUE, !.tries = 0]
    <3>1. r \in Process /\ Knows(r) /\ Reads(r, circuit)
      <4>1. r \in Process
        BY <1>k, <1>z DEF Process
      <4>2. /\ r.at = caller[c].at /\ r.used = TRUE /\ r.stale = caller[c].stale
            /\ r.model = caller[c].model /\ r.fallback = caller[c].fallback
        BY <1>k DEF Process
      <4>3. caller[c].fallback \in Models
        BY <1>k, <2>2 DEF Process
      <4> QED BY <1>12, <1>k, <4>1, <4>2, <4>3 DEF AttemptFails, Knows, Reads
    <3> QED BY <1>12, <1>t, <2>2, <3>1, OwnKeeps DEF AttemptFails
  <2>3. CASE ~(caller[c].tries < MaxRetries) /\ ~(caller[c].fallback # NoModel /\ ~caller[c].used)
    BY <1>12, <1>t, <1>e, <2>3, OwnKeeps DEF AttemptFails, Outcomes
  <2> QED BY <2>1, <2>2, <2>3
<1>13. ASSUME NEW c \in Callers, RecordOther(c) PROVE ProvidersInv'
  BY <1>13, <1>t, <1>r, OwnKeeps DEF RecordOther
<1>14. ASSUME NEW c \in Callers, ReadCircuit(c) PROVE ProvidersInv'
  <2> DEFINE row == circuit[ProviderOf[Target(c)]]
             r == [caller[c] EXCEPT !.at = "write",
                     !.read = [state |-> row.state, failures |-> row.failures]]
  <2>1. row \in Row
    BY <1>14, <1>t, <1>r DEF ReadCircuit
  <2>2. r \in Process
    BY <1>k, <2>1 DEF Row, Process, Phases
  <2>3. Knows(r)
    BY <1>14, <1>k DEF ReadCircuit, Process, Knows
  <2>4. Aim(r) = Target(c) /\ r.read.state = row.state /\ r.read.failures = row.failures /\ r.at = "write"
    BY <1>k DEF Aim, Target, Process
  <2>5. Reads(r, circuit)
    BY <2>4 DEF Reads
  <2> HIDE DEF r
  <2>6. Own(c, r) /\ UNCHANGED <<circuit, streak, skewed, outages>>
    BY <1>14 DEF ReadCircuit, r
  <2> QED BY <1>t, <2>2, <2>3, <2>5, <2>6, OwnKeeps
<1>15. ASSUME NEW c \in Callers, OutcomeLost(c) PROVE ProvidersInv'
  <2>1. outages' \in Upto(MaxOutages)
    BY <1>15, <1>t, ProvidersConstants DEF OutcomeLost, Upto
  <2> QED BY <1>15, <1>r, <2>1, OwnKeeps DEF OutcomeLost
<1>16. ASSUME NEW c \in Callers, BeginTrial(c) PROVE ProvidersInv'
  <2> DEFINE m == caller[c].model
             p == ProviderOf[m]
             row == [circuit[p] EXCEPT !.state = "half_open"]
  <2>1. m \in Models /\ p \in Providers
    BY <1>16, <1>k DEF BeginTrial, Knows, Providers
  <2>2. row \in Row
    BY <1>t, <2>1 DEF Row
  <2>3. Write(c, p, row, Probed(c, m, TRUE))
    BY <1>16 DEF BeginTrial
  <2>4. circuit' \in [Providers -> Row] /\ caller' \in [Callers -> Process] /\ CallersInv'
    <3>1. /\ Probed(c, m, TRUE) \in Process /\ Knows(Probed(c, m, TRUE))
          /\ Probed(c, m, TRUE).at \notin {"trial", "write"}
      BY <1>16, <1>p, <2>1 DEF BeginTrial
    <3> HIDE DEF row, p, m
    <3> QED BY <2>1, <2>2, <2>3, <3>1, WriteKeeps
  <2>5. UNCHANGED <<streak, outages>> /\ skewed' = [skewed EXCEPT ![p] = skewed[p] \/ caller[c].stale]
    BY <1>16 DEF BeginTrial
  <2>6. skewed' \in [Providers -> BOOLEAN]
    BY <1>t, <2>1, <2>5
  <2>7. FailuresCounted'
    <3> SUFFICES ASSUME NEW q \in Providers, ~skewed'[q]
                 PROVE  /\ circuit'[q].failures = streak'[q]
                        /\ circuit'[q].state = "closed" <=> streak'[q] < Threshold
      BY DEF FailuresCounted
    <3>1. CASE q = p
      <4>1. ~skewed[p] /\ ~caller[c].stale
        BY <1>t, <2>1, <2>5, <3>1
      <4>2. circuit[p].state = "open"
        BY <1>16, <1>k, <4>1 DEF BeginTrial, Reads, Aim, Knows
      <4>3. circuit'[p] = row
        BY <1>t, <2>1, <2>3 DEF Write
      <4>4. row.state = "half_open" /\ row.failures = circuit[p].failures
        BY <1>t, <2>1 DEF Row
      <4> QED BY <2>1, <2>5, <3>1, <4>1, <4>2, <4>3, <4>4 DEF ProvidersInv, FailuresCounted
    <3>2. CASE q # p
      <4>1. circuit'[q] = circuit[q]
        BY <1>t, <2>3, <3>2 DEF Write
      <4>2. ~skewed[q]
        BY <1>t, <2>5, <3>2
      <4> QED BY <2>5, <4>1, <4>2 DEF ProvidersInv, FailuresCounted
    <3> QED BY <3>1, <3>2
  <2> QED BY <1>t, <2>4, <2>5, <2>6, <2>7 DEF ProvidersInv, ProvidersTypeOK, Process, Row
<1>17. ASSUME NEW c \in Callers, RecordSuccess(c) PROVE ProvidersInv'
  <2> DEFINE p == ProviderOf[Target(c)]
             row == [state |-> "closed", failures |-> 0, cooled |-> FALSE]
  <2>1. p \in Providers /\ row \in Row /\ Write(c, p, row, Recorded(c))
    BY <1>17, <1>r, <1>z DEF RecordSuccess, Row
  <2>2. circuit' \in [Providers -> Row] /\ caller' \in [Callers -> Process] /\ CallersInv'
    <3>1. Recorded(c) \in Process /\ Knows(Recorded(c)) /\ Recorded(c).at \notin {"trial", "write"}
      BY <1>17, <1>r DEF RecordSuccess
    <3> HIDE DEF row, p
    <3> QED BY <2>1, <3>1, WriteKeeps
  <2>3. /\ streak' = [streak EXCEPT ![p] = 0] /\ skewed' = [skewed EXCEPT ![p] = FALSE]
        /\ UNCHANGED outages /\ circuit' = [circuit EXCEPT ![p] = row]
    BY <1>17 DEF RecordSuccess, Write
  <2>4. FailuresCounted'
    BY <1>t, <2>1, <2>3, ProvidersConstants DEF ProvidersInv, FailuresCounted
  <2>5. streak' \in [Providers -> Upto(Threshold)] /\ skewed' \in [Providers -> BOOLEAN]
    BY <1>t, <1>z, <2>1, <2>3
  <2> QED BY <1>t, <2>2, <2>3, <2>4, <2>5 DEF ProvidersInv, ProvidersTypeOK, Process, Row
<1>18. ASSUME NEW c \in Callers, WriteFailure(c) PROVE ProvidersInv'
  <2> DEFINE p == ProviderOf[Target(c)]
             n == Capped(caller[c].read.failures + 1)
             opens == caller[c].read.state = "half_open" \/ n >= Threshold
             row == [state |-> IF opens THEN "open" ELSE circuit[p].state, failures |-> n,
                     cooled |-> IF opens THEN FALSE ELSE circuit[p].cooled]
  <2>1. p \in Providers /\ Write(c, p, row, Recorded(c))
    BY <1>18, <1>r DEF WriteFailure
  <2>2. n \in Upto(Threshold) /\ caller[c].read.failures \in Upto(Threshold)
    BY <1>k, ProvidersConstants DEF Capped, Process, Upto
  <2>3. row \in Row
    BY <1>t, <2>1, <2>2 DEF Row
  <2>4. circuit' \in [Providers -> Row] /\ caller' \in [Callers -> Process] /\ CallersInv'
    <3>1. Recorded(c) \in Process /\ Knows(Recorded(c)) /\ Recorded(c).at \notin {"trial", "write"}
      BY <1>18, <1>r DEF WriteFailure
    <3> HIDE DEF row, p
    <3> QED BY <2>1, <2>3, <3>1, WriteKeeps
  <2>5. /\ streak' = [streak EXCEPT ![p] = Capped(streak[p] + 1)] /\ UNCHANGED outages
        /\ skewed' = [skewed EXCEPT ![p] = skewed[p] \/ caller[c].stale]
        /\ circuit' = [circuit EXCEPT ![p] = row]
    BY <1>18 DEF WriteFailure, Write
  <2>6. streak' \in [Providers -> Upto(Threshold)] /\ skewed' \in [Providers -> BOOLEAN]
    BY <1>t, <2>1, <2>5, ProvidersConstants DEF Capped, Upto
  <2>7. FailuresCounted'
    <3> SUFFICES ASSUME NEW q \in Providers, ~skewed'[q]
                 PROVE  /\ circuit'[q].failures = streak'[q]
                        /\ circuit'[q].state = "closed" <=> streak'[q] < Threshold
      BY DEF FailuresCounted
    <3>1. CASE q = p
      <4>1. ~skewed[p] /\ ~caller[c].stale
        BY <1>t, <2>1, <2>5, <3>1
      <4>2. circuit[p].state = caller[c].read.state /\ circuit[p].failures = caller[c].read.failures
        BY <1>18, <1>k, <4>1 DEF WriteFailure, Reads, Aim, Target
      <4>3. circuit[p].failures = streak[p] /\ (circuit[p].state = "closed" <=> streak[p] < Threshold)
        BY <2>1, <4>1 DEF ProvidersInv, FailuresCounted
      <4>4. streak'[p] = n /\ circuit'[p] = row /\ streak[p] \in Upto(Threshold)
        BY <1>t, <2>1, <2>5, <4>2, <4>3
      <4>5. CASE opens
        <5>1. n >= Threshold
          BY <4>2, <4>3, <4>4, <4>5, ProvidersConstants DEF Capped, Upto
        <5> QED BY <2>2, <3>1, <4>4, <4>5, <5>1, ProvidersConstants DEF Upto
      <4>6. CASE ~opens
        <5>1. n < Threshold /\ streak[p] < Threshold
          BY <2>2, <4>2, <4>3, <4>4, <4>6, ProvidersConstants DEF Capped, Upto
        <5>2. row.state = circuit[p].state /\ row.failures = n /\ circuit[p].state = "closed"
          BY <4>3, <4>6, <5>1
        <5> HIDE DEF row, n
        <5> QED BY <3>1, <4>4, <5>1, <5>2
      <4> QED BY <4>5, <4>6
    <3>2. CASE q # p
      <4>1. circuit'[q] = circuit[q] /\ streak'[q] = streak[q] /\ skewed'[q] = skewed[q]
        BY <1>t, <2>5, <3>2
      <4> QED BY <4>1 DEF ProvidersInv, FailuresCounted
    <3> QED BY <3>1, <3>2
  <2> QED BY <1>t, <2>4, <2>5, <2>6, <2>7 DEF ProvidersInv, ProvidersTypeOK, Process, Row
<1>19. ASSUME NEW p \in Providers, Cool(p) PROVE ProvidersInv'
  <2>1. /\ circuit' \in [Providers -> Row] /\ UNCHANGED <<caller, streak, skewed, outages>>
        /\ \A q \in Providers : /\ circuit'[q].state = circuit[q].state
                                /\ circuit'[q].failures = circuit[q].failures
                                /\ circuit[q].cooled => circuit'[q].cooled
    BY <1>19, <1>t DEF Cool, Row
  <2>2. CallersInv'
    <3> SUFFICES ASSUME NEW c \in Callers PROVE Knows(caller[c])' /\ Reads(caller[c], circuit)'
      BY DEF CallersInv
    <3>1. Knows(caller[c])'
      BY <1>k, <2>1 DEF Knows
    <3>2. ASSUME caller[c].at \in {"trial", "write"} PROVE ProviderOf[Aim(caller[c])] \in Providers
      BY <1>k, <3>2 DEF Knows, Aim, Providers
    <3>3. Reads(caller[c], circuit)'
      BY <1>k, <2>1, <3>2 DEF Reads, Aim
    <3> QED BY <3>1, <3>3
  <2>3. FailuresCounted'
    BY <2>1 DEF ProvidersInv, FailuresCounted
  <2> QED BY <1>t, <2>1, <2>2, <2>3 DEF ProvidersInv, ProvidersTypeOK, Process, Row
<1> QED BY <1>1, <1>2, <1>3, <1>4, <1>5, <1>6, <1>7, <1>8, <1>9, <1>10, <1>11, <1>12, <1>13,
      <1>14, <1>15, <1>16, <1>17, <1>18, <1>19 DEF ProvidersNext

\* Only the trial of a caller opens a circuit half.
LEMMA TrialStep ==
  ASSUME ProvidersInv, ProvidersNext, NEW p \in Providers,
         circuit[p].state = "open", circuit'[p].state = "half_open"
  PROVE  circuit[p].cooled \/ \E c \in Callers : caller[c].at = "trial" /\ caller[c].stale
<1>t. circuit \in [Providers -> Row]
  BY DEF ProvidersInv, ProvidersTypeOK, Row
<1>1. ASSUME NEW c \in Callers, BeginTrial(c)
      PROVE  circuit[p].cooled \/ (caller[c].at = "trial" /\ caller[c].stale)
  <2>1. p = ProviderOf[caller[c].model]
    BY <1>1, <1>t DEF BeginTrial, Write
  <2>2. Knows(caller[c]) /\ Reads(caller[c], circuit) /\ caller[c].at = "trial"
    BY <1>1 DEF ProvidersInv, CallersInv, BeginTrial
  <2> QED BY <2>1, <2>2 DEF Knows, Reads, Aim
<1>2. ASSUME NEW c \in Callers, RecordSuccess(c)
      PROVE  FALSE
  BY <1>2, <1>t DEF RecordSuccess, Write
<1>3. ASSUME NEW c \in Callers, WriteFailure(c)
      PROVE  FALSE
  BY <1>3, <1>t DEF WriteFailure, Write
<1>4. ASSUME NEW q \in Providers, Cool(q)
      PROVE  FALSE
  BY <1>4, <1>t DEF Cool, Row
<1>5. ASSUME UNCHANGED circuit
      PROVE  FALSE
  BY <1>5
<1> QED BY <1>1, <1>2, <1>3, <1>4, <1>5
  DEF ProvidersNext, BeginSelect, Probe, ProbeCached, ProbeFails, CacheExpires, Choose, NoProvider,
      BeginCall, Leave, Answer, Rejected, Cancel, RecordOther, ReadCircuit, OutcomeLost, AttemptFails

-----------------------------------------------------------------------------
\* Types, readings and counts hold in every reachable state.
THEOREM ProvidersInvariance == ProvidersSpec => []ProvidersInv
<1>1. ASSUME ProvidersInit PROVE ProvidersInv
  <2>1. ProvidersTypeOK
    BY <1>1, ProvidersConstants
    DEF ProvidersInit, ProvidersTypeOK, Idle, NoRow, Phases, Outcomes, Upto
  <2>2. CallersInv
    BY <1>1 DEF ProvidersInit, CallersInv, Knows, Reads, Idle
  <2>3. FailuresCounted
    BY <1>1, ProvidersConstants DEF ProvidersInit, FailuresCounted
  <2> QED BY <2>1, <2>2, <2>3 DEF ProvidersInv
<1>2. ASSUME ProvidersInv, [ProvidersNext]_providerVars PROVE ProvidersInv'
  <2>1. CASE UNCHANGED providerVars
    BY <1>2, <2>1 DEF providerVars, ProvidersInv, ProvidersTypeOK, CallersInv, Knows, Reads, Aim, FailuresCounted
  <2> QED BY <1>2, <2>1, CallerStep
<1> QED BY <1>1, <1>2, PTL DEF ProvidersSpec

\* Every step of the selection, the call and the circuit keeps the types of the rows.
THEOREM ProvidersTypes == ProvidersSpec => []ProvidersTypeOK
<1>1. ProvidersInv => ProvidersTypeOK
  BY DEF ProvidersInv
<1> QED BY <1>1, ProvidersInvariance, PTL

\* agents/circuit_breaker.py: the count is that of the failures recorded since the last
\* success, and decides whether the circuit is closed, but for outdated readings.
THEOREM CountIsExact == ProvidersSpec => []FailuresCounted
<1>1. ProvidersInv => FailuresCounted
  BY DEF ProvidersInv
<1> QED BY <1>1, ProvidersInvariance, PTL

\* agents/circuit_breaker.py, is_open: no trial before the cooldown is over, but for an
\* outdated reading.
THEOREM TrialsWait == ProvidersSpec => NoEarlyTrial
<1> DEFINE A == \A p \in Providers :
             circuit[p].state = "open" /\ circuit'[p].state = "half_open" =>
               circuit[p].cooled \/ \E c \in Callers : caller[c].at = "trial" /\ caller[c].stale
<1>1. ASSUME ProvidersInv, [ProvidersNext]_providerVars PROVE [A]_circuit
  BY <1>1, TrialStep DEF providerVars
<1> QED BY <1>1, ProvidersInvariance, PTL DEF ProvidersSpec, NoEarlyTrial

-----------------------------------------------------------------------------
(* The components side by side                                             *)

\* A behaviour of the composition is one of each component: what moves one of them
\* is a step of it and leaves the other as it is.
THEOREM ServicesComponents == Spec => ProvidersSpec /\ EventStreamSpec
<1>1. Init => ProvidersInit /\ EventStreamInit
  BY DEF Init
<1>2. [Next]_vars => [ProvidersNext]_providerVars
  BY DEF Next, vars, ModelCalls, Progress
<1>3. [Next]_vars => [EventStreamNext]_streamVars
  BY DEF Next, vars, ModelCalls, Progress
<1> QED
  BY <1>1, <1>2, <1>3, PTL DEF Spec, ProvidersSpec, EventStreamSpec

\* Every step of a model's call, of the worker, of the stream and of a page keeps the
\* types of what it writes.
THEOREM ServicesTypes == Spec => []TypesOK
<1>1. ProvidersTypeOK /\ EventStreamTypeOK => TypesOK
  BY DEF TypesOK
<1> QED
  BY <1>1, ServicesComponents, ProvidersTypes, TypeCorrect, PTL
=============================================================================
