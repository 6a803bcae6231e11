------------------------ MODULE ClientSessionProofs -------------------------
(***************************************************************************)
(* Proofs about ClientSession, for any number of requests and of radios:   *)
(* every step keeps the types, and what runs is what the selected radio    *)
(* needs.                                                                  *)
(***************************************************************************)
EXTENDS ClientSession, SequenceLemmas

LEMMA ThoseAre ==
    ASSUME NEW X, NEW s \in Seq(X), NEW S
    PROVE  Those(s, S) \in Seq(X) /\ ToSet(Those(s, S)) = ToSet(s) \cap S
<1> DEFINE ss == [i \in DOMAIN s |-> IF s[i] \in S THEN <<s[i]>> ELSE <<>>]
<1>1. DOMAIN s = 1..Len(s) /\ Len(s) \in Nat /\ \A i \in 1..Len(s) : s[i] \in X
  OBVIOUS
<1>2. ASSUME NEW i \in 1..Len(s)
      PROVE  ss[i] \in Seq(X) /\ ToSet(ss[i]) = {s[i]} \cap S
  <2>1. CASE s[i] \in S
    BY <1>1, <2>1, SetOfOne
  <2>2. CASE s[i] \notin S
    <3>1. ss[i] = <<>> /\ <<>> \in Seq(X)
      BY <1>1, <2>2
    <3> QED BY <2>2, <3>1, SetOfEmpty
  <2> QED BY <2>1, <2>2
<1>3. ss \in [1..Len(s) -> Seq(X)]
  BY <1>1, <1>2
<1>4. ss \in Seq(Seq(X)) /\ Len(ss) = Len(s)
  BY <1>1, <1>3, FunctionIsSeq
<1>5. Those(s, S) = FlattenSeq(ss)
  BY DEF Those
<1> HIDE DEF ss
<1>6. FlattenSeq(ss) \in Seq(X) /\ ToSet(FlattenSeq(ss)) = UNION {ToSet(ss[i]) : i \in 1..Len(s)}
  BY <1>4, SetOfFlatten
<1>7. ToSet(s) = {s[i] : i \in 1..Len(s)}
  BY <1>1 DEF ToSet
<1> QED BY <1>2, <1>5, <1>6, <1>7

LEMMA ThoseOfOne ==
    ASSUME NEW x, NEW S
    PROVE  Those(<<x>>, S) = (IF x \in S THEN <<x>> ELSE <<>>) /\ Those(<<>>, S) = <<>>
<1> DEFINE ss == [i \in DOMAIN <<x>> |-> IF <<x>>[i] \in S THEN <<<<x>>[i]>> ELSE <<>>]
           rest == [i \in DOMAIN <<>> |-> IF <<>>[i] \in S THEN <<<<>>[i]>> ELSE <<>>]
<1>1. DOMAIN <<x>> = 1..1 /\ <<x>>[1] = x /\ DOMAIN <<>> = 1..0
  OBVIOUS
<1> DEFINE one == IF x \in S THEN <<x>> ELSE <<>>
<1>2. ss[1] = one /\ ss \in [1..1 -> Seq({x})]
  <2>1. one \in Seq({x})
    <3>1. <<x>> \in Seq({x}) /\ <<>> \in Seq({x})
      OBVIOUS
    <3> QED BY <3>1
  <2>2. ss = [i \in 1..1 |-> one]
    BY <1>1
  <2> HIDE DEF one, ss
  <2> QED BY <2>1, <2>2
<1>3. ss \in Seq(Seq({x})) /\ Len(ss) = 1
  BY <1>2, FunctionIsSeq
<1>4. rest = <<>>
  BY <1>1
<1>5. FlattenSeq(rest) = <<>>
  BY <1>4 DEF FlattenSeq
<1>6. Those(<<x>>, S) = FlattenSeq(ss) /\ Those(<<>>, S) = FlattenSeq(rest)
  BY DEF Those
<1> HIDE DEF ss, rest
<1> QED BY <1>2, <1>3, <1>5, <1>6, SetOfFlatten

-----------------------------------------------------------------------------
(* What the event loop does with a job *)

LEMMA NamesApart ==
    /\ Tasks \subseteq Jobs
    /\ \A c \in Clicks : Request(c) \in Jobs /\ Request(c) \notin Tasks /\ Request(c)[1] = c
    /\ \A c, d \in Clicks : Request(c) = Request(d) => c = d
    /\ \A j \in Jobs : j \in Tasks \/ \E c \in Clicks : j = Request(c)
    /\ \A j \in Jobs : j[1] \in Clicks
BY DEF Tasks, Jobs, Request

\* A request that parks, having cancelled ts.
Parked(c, x, ts) ==
    /\ \E r \in Seq(Tasks) : /\ queue' = Tail(queue) \o r
                             /\ ToSet(r) = {t \in ToSet(ts) : job[t] = "parked"}
    /\ sleepers' = Append(sleepers, c)
    /\ awaited' = [awaited EXCEPT ![c] = x]
    /\ job' \in [Jobs -> JobStates]
    /\ job'[Request(c)] = "parked"
    /\ \A d \in Clicks : d # c => job'[Request(d)] = job[Request(d)]
    /\ \A t \in Tasks :
          job'[t] = IF t \in ToSet(ts) /\ job[t] = "parked" THEN "cancelled"
                    ELSE IF t \in ToSet(ts) /\ job[t] = "queued" THEN "doomed" ELSE job[t]

LEMMA ParksEffect ==
    ASSUME SessionTypeOK, NEW c \in Clicks, NEW x, NEW ts \in Seq(Tasks), Parks(c, x, ts)
    PROVE  Parked(c, x, ts)
<1>1. ToSet(ts) \subseteq Tasks
  BY SetWithin
<1>2. Woken(ts) \in Seq(Tasks) /\ ToSet(Woken(ts)) = {t \in ToSet(ts) : job[t] = "parked"}
  BY <1>1, ThoseAre DEF Woken
<1>3. job \in [Jobs -> JobStates]
  BY DEF SessionTypeOK
<1>4. job' = [CancelledJobs(ts) EXCEPT ![Request(c)] = "parked"]
  BY DEF Parks
<1>5. ASSUME NEW j \in Jobs
      PROVE  CancelledJobs(ts)[j] = IF j \in ToSet(ts) /\ job[j] = "parked" THEN "cancelled"
                  ELSE IF j \in ToSet(ts) /\ job[j] = "queued" THEN "doomed" ELSE job[j]
  BY DEF CancelledJobs
<1>6. CancelledJobs(ts) \in [Jobs -> JobStates]
  BY <1>3 DEF CancelledJobs, JobStates
<1>7. job' \in [Jobs -> JobStates] /\ job'[Request(c)] = "parked"
  BY <1>4, <1>6, NamesApart DEF JobStates
<1>8. ASSUME NEW j \in Jobs, j # Request(c) PROVE job'[j] = CancelledJobs(ts)[j]
  BY <1>4, <1>6, <1>8
<1>9. ASSUME NEW d \in Clicks, d # c PROVE job'[Request(d)] = job[Request(d)]
  BY <1>1, <1>5, <1>8, <1>9, NamesApart
<1>10. ASSUME NEW t \in Tasks
       PROVE  job'[t] = IF t \in ToSet(ts) /\ job[t] = "parked" THEN "cancelled"
                        ELSE IF t \in ToSet(ts) /\ job[t] = "queued" THEN "doomed" ELSE job[t]
  BY <1>5, <1>8, NamesApart
<1> QED BY <1>2, <1>7, <1>9, <1>10 DEF Parks, Parked

\* A request that ends, having created ts.
Ended(c, ts) ==
    /\ queue' = Tail(queue) \o ts
    /\ UNCHANGED sleepers
    /\ awaited' = [awaited EXCEPT ![c] = NoJob]
    /\ job' \in [Jobs -> JobStates]
    /\ job'[Request(c)] = "done"
    /\ \A d \in Clicks : d # c => job'[Request(d)] = job[Request(d)]
    /\ \A t \in Tasks : job'[t] = IF t \in ToSet(ts) THEN "queued" ELSE job[t]

LEMMA EndsEffect ==
    ASSUME SessionTypeOK, NEW c \in Clicks, NEW ts \in Seq(Tasks), Ends(c, ts)
    PROVE  Ended(c, ts)
<1>1. ToSet(ts) \subseteq Tasks
  BY SetWithin
<1>2. job' \in [Jobs -> JobStates]
  BY DEF Ends, SessionTypeOK, JobStates
<1>3. \A j \in Jobs : job'[j] = IF j = Request(c) THEN "done"
                                ELSE IF j \in ToSet(ts) THEN "queued" ELSE job[j]
  BY DEF Ends
<1> QED BY <1>1, <1>2, <1>3, NamesApart DEF Ends, Ended

\* A task that is done, and the request it wakes if that is the only one.
Finished(t, q) ==
    /\ UNCHANGED awaited
    /\ job' \in [Jobs -> JobStates] /\ queue' \in Seq(Jobs) /\ sleepers' \in Seq(Clicks)
    /\ \A u \in Tasks : job'[u] = IF u = t THEN "done" ELSE job[u]
    /\ sleepers = <<>> =>
          sleepers' = <<>> /\ queue' = q /\ \A d \in Clicks : job'[Request(d)] = job[Request(d)]
    /\ \A c \in Clicks : sleepers = <<c>> =>
          \/ sleepers' = <<c>> /\ queue' = q /\ \A d \in Clicks : job'[Request(d)] = job[Request(d)]
          \/ /\ sleepers' = <<>> /\ queue' = q \o <<Request(c)>>
             /\ job'[Request(c)] = "queued"
             /\ \A d \in Clicks : d # c => job'[Request(d)] = job[Request(d)]

LEMMA TaskDoneEffect ==
    ASSUME SessionTypeOK, NEW t \in Tasks, NEW q \in Seq(Jobs), TaskDone(t, q)
    PROVE  Finished(t, q)
<1> DEFINE wakes == {c \in ToSet(sleepers) : Head(Left(c)) = t}
           woken == Those(sleepers, wakes)
           others == [i \in DOMAIN woken |-> Request(woken[i])]
<1>1. /\ job' = [j \in Jobs |-> IF j = t THEN "done"
                                ELSE IF j[1] \in wakes /\ j = Request(j[1]) THEN "queued"
                                ELSE job[j]]
      /\ queue' = q \o others
      /\ sleepers' = Those(sleepers, ToSet(sleepers) \ wakes)
      /\ UNCHANGED awaited
  BY DEF TaskDone
<1>2. sleepers \in Seq(Clicks) /\ wakes \subseteq ToSet(sleepers) /\ job \in [Jobs -> JobStates]
  BY DEF SessionTypeOK
<1> HIDE DEF wakes
<1>3. woken \in Seq(Clicks)
  BY <1>2, ThoseAre
<1>4. sleepers' \in Seq(Clicks)
  BY <1>1, <1>2, ThoseAre
<1>5. others \in Seq(Jobs)
  <2>1. DOMAIN woken = 1..Len(woken) /\ Len(woken) \in Nat /\ \A i \in 1..Len(woken) : woken[i] \in Clicks
    BY <1>3
  <2>2. others \in [1..Len(woken) -> Jobs]
    BY <2>1, NamesApart
  <2> QED BY <2>1, <2>2, FunctionIsSeq
<1>6. queue' \in Seq(Jobs)
  BY <1>1, <1>5, SetOfJoin
<1>7. job' \in [Jobs -> JobStates]
  BY <1>1, <1>2 DEF JobStates
<1>8. \A u \in Tasks : job'[u] = IF u = t THEN "done" ELSE job[u]
  BY <1>1, NamesApart
<1>9. \A d \in Clicks : job'[Request(d)] = IF d \in wakes THEN "queued" ELSE job[Request(d)]
  BY <1>1, NamesApart
<1>10. ASSUME woken = <<>> PROVE queue' = q
  <2>1. others = <<>>
    BY <1>10
  <2> QED BY <1>1, <2>1
<1>11. ASSUME NEW c \in Clicks, woken = <<c>> PROVE queue' = q \o <<Request(c)>>
  <2>1. others = <<Request(c)>>
    BY <1>11
  <2> QED BY <1>1, <2>1
<1>12. ASSUME sleepers = <<>>
       PROVE  sleepers' = <<>> /\ queue' = q /\ \A d \in Clicks : job'[Request(d)] = job[Request(d)]
  <2>1. woken = <<>> /\ sleepers' = <<>>
    BY <1>1, <1>12, ThoseOfOne
  <2>2. wakes = {}
    BY <1>2, <1>12, SetOfEmpty
  <2> QED BY <1>9, <1>10, <2>1, <2>2
<1>13. ASSUME NEW c \in Clicks, sleepers = <<c>>
       PROVE  \/ sleepers' = <<c>> /\ queue' = q /\ \A d \in Clicks : job'[Request(d)] = job[Request(d)]
              \/ /\ sleepers' = <<>> /\ queue' = q \o <<Request(c)>>
                 /\ job'[Request(c)] = "queued"
                 /\ \A d \in Clicks : d # c => job'[Request(d)] = job[Request(d)]
  <2>1. ToSet(sleepers) = {c}
    BY <1>13, SetOfOne
  <2>2. CASE c \in wakes
    <3>1. woken = <<c>> /\ sleepers' = <<>>
      BY <1>1, <1>13, <2>1, <2>2, ThoseOfOne
    <3>2. wakes = {c}
      BY <1>2, <2>1, <2>2
    <3> QED BY <1>9, <1>11, <3>1, <3>2
  <2>3. CASE c \notin wakes
    <3>1. woken = <<>> /\ sleepers' = <<c>>
      BY <1>1, <1>13, <2>1, <2>3, ThoseOfOne
    <3>2. wakes = {}
      BY <1>2, <2>1, <2>3
    <3> QED BY <1>9, <1>10, <3>1, <3>2
  <2> QED BY <2>2, <2>3
<1> QED BY <1>1, <1>4, <1>6, <1>7, <1>8, <1>12, <1>13 DEF Finished

-----------------------------------------------------------------------------
(* Types *)

LoopTypes == /\ queue \in Seq(Jobs) /\ job \in [Jobs -> JobStates] /\ sleepers \in Seq(Clicks)
             /\ awaited \in [Clicks -> Clicks \cup Tasks \cup {NoJob}]

LEMMA LoopTypesKept ==
    ASSUME SessionTypeOK, NEW c \in Clicks, NEW ts \in Seq(Tasks), Runs(Request(c)),
           \/ Ended(c, ts)
           \/ \E x \in Clicks \cup Tasks \cup {NoJob} : Parked(c, x, ts)
    PROVE  LoopTypes'
<1>1. Tail(queue) \in Seq(Jobs) /\ queue # <<>>
  BY SetOfRest DEF Runs, SessionTypeOK
<1>2. \A r \in Seq(Tasks) : r \in Seq(Jobs)
  BY SeqMonotonic, NamesApart
<1>3. CASE Ended(c, ts)
  <2>1. queue' \in Seq(Jobs)
    BY <1>1, <1>2, <1>3, SetOfJoin DEF Ended
  <2> QED BY <1>3, <2>1 DEF Ended, LoopTypes, SessionTypeOK
<1>4. ASSUME NEW x \in Clicks \cup Tasks \cup {NoJob}, Parked(c, x, ts) PROVE LoopTypes'
  <2>1. queue' \in Seq(Jobs)
    BY <1>1, <1>2, <1>4, SetOfJoin DEF Parked
  <2>2. sleepers' \in Seq(Clicks)
    BY <1>4 DEF Parked, SessionTypeOK
  <2> QED BY <1>4, <2>1, <2>2 DEF Parked, LoopTypes, SessionTypeOK
<1> QED BY <1>3, <1>4

LEMMA JoinOfTasks ==
    ASSUME NEW r \in Seq(Tasks), NEW u \in Seq(Tasks)
    PROVE  r \o u \in Seq(Tasks) /\ ToSet(r \o u) = ToSet(r) \cup ToSet(u)
BY SetOfJoin

\* What a driver's start creates.
LEMMA NewDrivers ==
    ASSUME NEW c \in Clicks
    PROVE  /\ NewRc28(c) \in {<<>>, <<<<c, "rc28">>>>}
           /\ NewPanel(c) \in {<<>>, <<<<c, "panel">>>>}
           /\ <<c, "rc28">> \in Tasks /\ <<c, "panel">> \in Tasks /\ <<c, "control">> \in Tasks
           /\ NewRc28(c) \in Seq(Tasks) /\ NewPanel(c) \in Seq(Tasks)
           /\ <<<<c, "control">>>> \o NewRc28(c) \o NewPanel(c) \in Seq(Tasks)
           /\ ToSet(<<<<c, "control">>>> \o NewRc28(c) \o NewPanel(c))
                 = {<<c, "control">>} \cup ToSet(NewRc28(c)) \cup ToSet(NewPanel(c))
<1>1. <<c, "rc28">> \in Tasks /\ <<c, "panel">> \in Tasks /\ <<c, "control">> \in Tasks
  BY DEF Tasks
<1>2. NewRc28(c) \in {<<>>, <<<<c, "rc28">>>>} /\ NewPanel(c) \in {<<>>, <<<<c, "panel">>>>}
  BY DEF NewRc28, NewPanel
<1>3. /\ <<>> \in Seq(Tasks) /\ <<<<c, "rc28">>>> \in Seq(Tasks)
      /\ <<<<c, "panel">>>> \in Seq(Tasks) /\ <<<<c, "control">>>> \in Seq(Tasks)
  BY <1>1
<1>4. NewRc28(c) \in Seq(Tasks) /\ NewPanel(c) \in Seq(Tasks)
  BY <1>2, <1>3
<1> DEFINE first == <<<<c, "control">>>>
           dial == NewRc28(c)
           last == NewPanel(c)
<1>5. first \in Seq(Tasks) /\ dial \in Seq(Tasks) /\ last \in Seq(Tasks)
  BY <1>3, <1>4
<1>6. ToSet(first) = {<<c, "control">>}
  BY SetOfOne
<1>7. /\ first \o dial \o last \in Seq(Tasks)
      /\ ToSet(first \o dial \o last) = ToSet(first) \cup ToSet(dial) \cup ToSet(last)
  <2> HIDE DEF first, dial, last
  <2>1. first \o dial \in Seq(Tasks) /\ ToSet(first \o dial) = ToSet(first) \cup ToSet(dial)
    BY <1>5, JoinOfTasks
  <2> QED BY <1>5, <2>1, JoinOfTasks
<1> QED BY <1>1, <1>2, <1>4, <1>6, <1>7

LEMMA CreatedTypes ==
    ASSUME SessionTypeOK, NEW c \in Clicks, NEW ts \in Seq(Tasks), Created(c, ts),
           radio' \in Radios \cup {NoRadio}
    PROVE  /\ {rc28, panel, panelTask}' \subseteq Tasks \cup {NoJob}
           /\ home' \in [Tasks -> Radios \cup {NoRadio}]
           /\ listeners' \subseteq Tasks
<1>1. <<c, "rc28">> \in Tasks /\ <<c, "panel">> \in Tasks
  BY DEF Tasks
<1>2. ToSet(ts) \subseteq Tasks
  BY SetWithin
<1>3. rc28' \in Tasks \cup {NoJob}
  BY <1>1 DEF Created, SessionTypeOK
<1>4. panel' \in Tasks \cup {NoJob}
  BY <1>1 DEF Created, SessionTypeOK
<1>5. panelTask' \in Tasks \cup {NoJob}
  BY <1>1 DEF Created, SessionTypeOK
<1>6. home' \in [Tasks -> Radios \cup {NoRadio}] /\ listeners' \subseteq Tasks
  BY <1>2 DEF Created, SessionTypeOK
<1> QED BY <1>3, <1>4, <1>5, <1>6

LEMMA SessionInitTyped == ASSUME SessionInit PROVE SessionTypeOK
<1>1. queue \in Seq(Jobs) /\ sleepers \in Seq(Clicks) /\ lists \in [Clicks -> Seq(Tasks)]
  <2>1. <<>> \in Seq(Jobs) /\ <<>> \in Seq(Clicks) /\ <<>> \in Seq(Tasks)
    OBVIOUS
  <2> QED BY <2>1 DEF SessionInit
<1>2. {rc28, panel, panelTask} \subseteq Tasks \cup {NoJob}
  BY DEF SessionInit
<1>3. want \in [Clicks -> Wants] /\ job \in [Jobs -> JobStates]
  BY DEF SessionInit, Wants, JobStates
<1> QED BY <1>1, <1>2, <1>3 DEF SessionInit, SessionTypeOK

LEMMA SessionTypeKept ==
    ASSUME SessionTypeOK, [SessionNext]_sessionVars PROVE SessionTypeOK'
<1> USE DEF askedFor, built, refs
<1>1. ASSUME NEW c \in Clicks, Click(c) PROVE SessionTypeOK'
  <2>1. queue' \in Seq(Jobs)
    BY <1>1, SetOfAppend, NamesApart DEF Click, SessionTypeOK
  <2>2. job' \in [Jobs -> JobStates]
    BY <1>1 DEF Click, SessionTypeOK, JobStates
  <2>3. want' \in [Clicks -> Wants]
    BY <1>1 DEF Click, SessionTypeOK
  <2> QED BY <1>1, <2>1, <2>2, <2>3 DEF Click, SessionTypeOK
<1>2. ASSUME NEW c \in Clicks, BeginSwitch(c) PROVE SessionTypeOK'
  <2>1. current \in Clicks /\ TasksHeld \in Seq(Tasks)
    BY <1>2, ThoseOfOne DEF BeginSwitch, TasksHeld, Undone, SessionTypeOK
  <2>2. Parked(c, current, TasksHeld)
    BY <1>2, <2>1, ParksEffect DEF BeginSwitch, Teardown
  <2>3. LoopTypes'
    BY <1>2, <2>1, <2>2, LoopTypesKept DEF BeginSwitch
  <2> QED BY <1>2, <2>3 DEF BeginSwitch, Teardown, LoopTypes, SessionTypeOK
<1>3. ASSUME NEW c \in Clicks, AwaitNext(c) PROVE SessionTypeOK'
  <2>0. <<>> \in Seq(Tasks)
    OBVIOUS
  <2>1. Parked(c, awaited[c], <<>>) /\ <<>> \in Seq(Tasks)
    BY <1>3, <2>0, ParksEffect DEF AwaitNext
  <2>2. awaited[c] \in Clicks \cup Tasks \cup {NoJob}
    BY DEF SessionTypeOK
  <2>3. LoopTypes'
    BY <1>3, <2>1, <2>2, LoopTypesKept DEF AwaitNext
  <2> QED BY <1>3, <2>3 DEF AwaitNext, LoopTypes, SessionTypeOK
<1>4. ASSUME NEW c \in Clicks, FinishSwitch(c) PROVE SessionTypeOK'
  <2> DEFINE ts == <<<<c, "control">>>> \o NewRc28(c) \o NewPanel(c)
  <2>1. ts \in Seq(Tasks)
    BY NewDrivers
  <2>2. Ends(c, ts) /\ Created(c, ts) /\ lists' = [lists EXCEPT ![c] = ts]
    BY <1>4 DEF FinishSwitch
  <2> HIDE DEF ts
  <2>3. LoopTypes'
    BY <1>4, <2>1, <2>2, EndsEffect, LoopTypesKept DEF FinishSwitch
  <2>4. radio' \in Radios \cup {NoRadio}
    BY <1>4 DEF FinishSwitch
  <2>5. /\ {rc28, panel, panelTask}' \subseteq Tasks \cup {NoJob}
        /\ home' \in [Tasks -> Radios \cup {NoRadio}] /\ listeners' \subseteq Tasks
    BY <2>1, <2>2, <2>4, CreatedTypes
  <2>6. lists' \in [Clicks -> Seq(Tasks)]
    BY <2>1, <2>2 DEF SessionTypeOK
  <2> QED BY <1>4, <2>3, <2>4, <2>5, <2>6 DEF FinishSwitch, LoopTypes, SessionTypeOK
<1>5. ASSUME NEW c \in Clicks, SwitchOn(c) PROVE SessionTypeOK'
  <2> DEFINE ts == IF radio = NoRadio THEN <<>>
                   ELSE IF want[c] = "rc28_on" THEN NewRc28(c) ELSE NewPanel(c)
  <2>1. ts \in Seq(Tasks)
    <3>1. <<>> \in Seq(Tasks)
      OBVIOUS
    <3> QED BY <3>1, NewDrivers
  <2>2. /\ Ends(c, ts) /\ Created(c, ts) /\ UNCHANGED <<current, radio, askedFor, stopped>>
        /\ lists' = IF current = NoJob THEN lists ELSE [lists EXCEPT ![current] = @ \o ts]
        /\ Runs(Request(c))
    BY <1>5 DEF SwitchOn
  <2> HIDE DEF ts
  <2>3. LoopTypes'
    BY <2>1, <2>2, EndsEffect, LoopTypesKept
  <2>4. radio' \in Radios \cup {NoRadio}
    BY <2>2 DEF SessionTypeOK
  <2>5. /\ {rc28, panel, panelTask}' \subseteq Tasks \cup {NoJob}
        /\ home' \in [Tasks -> Radios \cup {NoRadio}] /\ listeners' \subseteq Tasks
    BY <2>1, <2>2, <2>4, CreatedTypes
  <2>6. lists' \in [Clicks -> Seq(Tasks)]
    <3>1. current # NoJob => lists[current] \o ts \in Seq(Tasks)
      BY <2>1, SetOfJoin DEF SessionTypeOK
    <3> QED BY <2>2, <3>1 DEF SessionTypeOK
  <2>7. enabled' \subseteq {"rc28", "panel"}
    BY <1>5 DEF SwitchOn, SessionTypeOK
  <2> QED BY <2>2, <2>3, <2>4, <2>5, <2>6, <2>7 DEF LoopTypes, SessionTypeOK
<1>6. ASSUME NEW c \in Clicks, Rc28Off(c) PROVE SessionTypeOK'
  <2>1. <<>> \in Seq(Tasks)
    OBVIOUS
  <2>2. LoopTypes'
    BY <1>6, <2>1, EndsEffect, LoopTypesKept DEF Rc28Off
  <2>3. stopped' \subseteq Tasks /\ enabled' \subseteq {"rc28", "panel"}
    BY <1>6 DEF Rc28Off, SessionTypeOK
  <2> QED BY <1>6, <2>2, <2>3 DEF Rc28Off, LoopTypes, SessionTypeOK
<1>7. ASSUME NEW c \in Clicks, PanelOff(c) PROVE SessionTypeOK'
  <2>1. <<>> \in Seq(Tasks)
    OBVIOUS
  <2>2. LoopTypes' /\ panelTask' \in {panelTask, NoJob}
    <3>1. CASE Parks(c, panelTask, <<panelTask>>) /\ UNCHANGED panelTask /\ panelTask # NoJob
      <4>1. panelTask \in Tasks /\ <<panelTask>> \in Seq(Tasks)
        BY <3>1 DEF SessionTypeOK
      <4> QED BY <1>7, <3>1, <4>1, ParksEffect, LoopTypesKept DEF PanelOff
    <3>2. CASE Ends(c, <<>>) /\ panelTask' = NoJob
      BY <1>7, <2>1, <3>2, EndsEffect, LoopTypesKept DEF PanelOff
    <3> QED BY <1>7, <3>1, <3>2 DEF PanelOff
  <2>3. {rc28, panel, panelTask}' \subseteq Tasks \cup {NoJob}
    BY <1>7, <2>2 DEF PanelOff, SessionTypeOK
  <2> QED BY <1>7, <2>2, <2>3 DEF PanelOff, LoopTypes, SessionTypeOK
<1>8. ASSUME NEW t \in Tasks, TaskBegins(t) PROVE SessionTypeOK'
  <2>1. queue' \in Seq(Jobs)
    BY <1>8, SetOfRest DEF TaskBegins, Runs, SessionTypeOK
  <2>2. job' \in [Jobs -> JobStates]
    BY <1>8 DEF TaskBegins, SessionTypeOK, JobStates
  <2> QED BY <1>8, <2>1, <2>2 DEF TaskBegins, SessionTypeOK
<1>9. ASSUME NEW t \in Tasks, CleanUp(t) \/ UNCHANGED <<rc28, panel, listeners>>
      PROVE  {rc28', panel'} \subseteq Tasks \cup {NoJob} /\ listeners' \subseteq Tasks
  BY <1>9 DEF CleanUp, SessionTypeOK
<1>10. ASSUME NEW t \in Tasks, TaskCancelled(t) PROVE SessionTypeOK'
  <2>1. Tail(queue) \in Seq(Jobs)
    BY <1>10, SetOfRest DEF TaskCancelled, Runs, SessionTypeOK
  <2>2. LoopTypes'
    BY <1>10, <2>1, TaskDoneEffect DEF TaskCancelled, Finished, LoopTypes, SessionTypeOK
  <2>3. {rc28', panel'} \subseteq Tasks \cup {NoJob} /\ listeners' \subseteq Tasks
    BY <1>9, <1>10 DEF TaskCancelled
  <2>4. {rc28, panel, panelTask}' \subseteq Tasks \cup {NoJob}
    BY <1>10, <2>3 DEF TaskCancelled, SessionTypeOK
  <2> QED BY <1>10, <2>2, <2>3, <2>4 DEF TaskCancelled, LoopTypes, SessionTypeOK
<1>11. ASSUME NEW t \in Tasks, TaskEnds(t) PROVE SessionTypeOK'
  <2>1. queue \in Seq(Jobs)
    BY DEF SessionTypeOK
  <2>2. LoopTypes'
    BY <1>11, <2>1, TaskDoneEffect DEF TaskEnds, Finished, LoopTypes, SessionTypeOK
  <2>3. {rc28', panel'} \subseteq Tasks \cup {NoJob} /\ listeners' \subseteq Tasks
    BY <1>9, <1>11 DEF TaskEnds
  <2>4. {rc28, panel, panelTask}' \subseteq Tasks \cup {NoJob}
    BY <1>11, <2>3 DEF TaskEnds, SessionTypeOK
  <2> QED BY <1>11, <2>2, <2>3, <2>4 DEF TaskEnds, LoopTypes, SessionTypeOK
<1>12. CASE UNCHANGED sessionVars
  BY <1>12 DEF sessionVars, loop, SessionTypeOK
<1> QED BY <1>1, <1>2, <1>3, <1>4, <1>5, <1>6, <1>7, <1>8, <1>10, <1>11, <1>12
        DEF SessionNext, RunRequest

\* Every variable keeps its type.
THEOREM SessionTypeCorrect == SessionSpec => []SessionTypeOK
<1>1. SessionInit => SessionTypeOK
  BY SessionInitTyped
<1>2. SessionTypeOK /\ [SessionNext]_sessionVars => SessionTypeOK'
  BY SessionTypeKept
<1> QED BY <1>1, <1>2, PTL DEF SessionSpec

-----------------------------------------------------------------------------
(* The queue *)

\* No request is in the queue twice.
Once(q) == \A i, k \in 1..Len(q) : q[i] = q[k] /\ q[i] \notin Tasks => i = k

LEMMA OnceRest ==
    ASSUME NEW q \in Seq(Jobs), q # <<>>, Once(q)
    PROVE  Once(Tail(q)) /\ (Head(q) \notin Tasks => Head(q) \notin ToSet(Tail(q)))
<1>1. /\ Len(q) \in Nat /\ Len(q) > 0 /\ Head(q) = q[1] /\ Len(Tail(q)) = Len(q) - 1
      /\ DOMAIN Tail(q) = 1..Len(q) - 1
      /\ \A i \in 1..Len(q) - 1 : Tail(q)[i] = q[i + 1]
  OBVIOUS
<1>2. \A i \in 1..Len(q) - 1 : i + 1 \in 1..Len(q) /\ i + 1 # 1
  BY <1>1
<1>3. \A i, k \in 1..Len(q) - 1 : i + 1 = k + 1 => i = k
  BY <1>1
<1>4. Once(Tail(q))
  BY <1>1, <1>2, <1>3 DEF Once
<1>5. 1 \in 1..Len(q)
  BY <1>1
<1>6. ASSUME Head(q) \notin Tasks, NEW i \in 1..Len(q) - 1 PROVE Tail(q)[i] # Head(q)
  BY <1>1, <1>2, <1>5, <1>6 DEF Once
<1> QED BY <1>1, <1>4, <1>6 DEF ToSet

LEMMA SetOfMixed ==
    ASSUME NEW q \in Seq(Jobs), NEW r \in Seq(Tasks)
    PROVE  q \o r \in Seq(Jobs) /\ ToSet(q \o r) = ToSet(q) \cup ToSet(r)
<1>1. r \in Seq(Jobs)
  BY SeqMonotonic, NamesApart
<1> QED BY <1>1, SetOfJoin

LEMMA OnceJoin ==
    ASSUME NEW q \in Seq(Jobs), NEW r \in Seq(Tasks), Once(q)
    PROVE  Once(q \o r)
<1>1. /\ Len(q) \in Nat /\ Len(r) \in Nat /\ r \in Seq(Jobs)
      /\ \A i \in 1..Len(r) : r[i] \in Tasks
  BY SeqMonotonic, NamesApart
<1>2. /\ Len(q \o r) = Len(q) + Len(r)
      /\ \A i \in 1..Len(q) + Len(r) :
            (q \o r)[i] = IF i <= Len(q) THEN q[i] ELSE r[i - Len(q)]
  BY <1>1
<1>3. ASSUME NEW i \in 1..Len(q) + Len(r), (q \o r)[i] \notin Tasks
      PROVE  i \in 1..Len(q) /\ (q \o r)[i] = q[i]
  <2>1. ASSUME ~(i <= Len(q)) PROVE FALSE
    <3>1. i - Len(q) \in 1..Len(r)
      BY <1>1, <2>1
    <3> QED BY <1>1, <1>2, <1>3, <2>1, <3>1
  <2> QED BY <1>1, <1>2, <2>1
<1>4. ASSUME NEW i \in 1..Len(q \o r), NEW k \in 1..Len(q \o r),
             (q \o r)[i] = (q \o r)[k], (q \o r)[i] \notin Tasks
      PROVE  i = k
  BY <1>2, <1>3, <1>4 DEF Once
<1> QED BY <1>4 DEF Once

LEMMA OnceAppend ==
    ASSUME NEW q \in Seq(Jobs), NEW j \in Jobs, Once(q), j \notin ToSet(q)
    PROVE  Once(Append(q, j)) /\ q \o <<j>> = Append(q, j)
<1>1. /\ Len(q) \in Nat /\ Len(Append(q, j)) = Len(q) + 1 /\ DOMAIN q = 1..Len(q)
      /\ Append(q, j)[Len(q) + 1] = j
      /\ \A i \in 1..Len(q) : Append(q, j)[i] = q[i]
  OBVIOUS
<1>2. \A i \in 1..Len(q) + 1 : i \in 1..Len(q) \/ i = Len(q) + 1
  BY <1>1
<1>3. \A i \in 1..Len(q) : q[i] # j
  BY <1>1 DEF ToSet
<1>4. Once(Append(q, j))
  BY <1>1, <1>2, <1>3 DEF Once
<1>5. q \o <<j>> = Append(q, j)
  OBVIOUS
<1> QED BY <1>4, <1>5

Unfinished(c) == job[Request(c)] \in {"queued", "parked"}

\* What waits to be run is in the queue; a request is in it once, or sleeps; and
\* there is one request at most.
Line ==
    /\ \A j \in Jobs : job[j] \in {"queued", "cancelled", "doomed"} => j \in ToSet(queue)
    /\ \A c \in Clicks : Request(c) \in ToSet(queue) => job[Request(c)] = "queued"
    /\ Once(queue)
    /\ \A c \in Clicks : job[Request(c)] \in {"none", "queued", "parked", "done"}
    /\ \A c \in Clicks : job[Request(c)] = "parked" => sleepers = <<c>>
    /\ sleepers = <<>> \/ \E c \in Clicks : sleepers = <<c>> /\ job[Request(c)] = "parked"
    /\ \A c, d \in Clicks : Unfinished(c) /\ Unfinished(d) => c = d

LEMMA RequestRuns ==
    ASSUME SessionTypeOK, Line, NEW c \in Clicks, Runs(Request(c))
    PROVE  /\ job[Request(c)] = "queued" /\ sleepers = <<>>
           /\ \A d \in Clicks : Unfinished(d) <=> d = c
           /\ Tail(queue) \in Seq(Jobs) /\ Once(Tail(queue))
           /\ ToSet(queue) = {Request(c)} \cup ToSet(Tail(queue))
           /\ Request(c) \notin ToSet(Tail(queue))
<1>1. /\ queue \in Seq(Jobs) /\ queue # <<>> /\ Head(queue) = Request(c)
      /\ Request(c) \notin Tasks
  BY NamesApart DEF Runs, SessionTypeOK
<1>2. Tail(queue) \in Seq(Jobs) /\ ToSet(queue) = {Request(c)} \cup ToSet(Tail(queue))
  BY <1>1, SetOfRest
<1>3. Once(Tail(queue)) /\ Request(c) \notin ToSet(Tail(queue))
  BY <1>1, OnceRest DEF Line
<1>4. job[Request(c)] = "queued"
  BY <1>2 DEF Line
<1>5. \A d \in Clicks : Unfinished(d) <=> d = c
  BY <1>4 DEF Line, Unfinished
<1>6. sleepers = <<>>
  BY <1>4, <1>5 DEF Line, Unfinished
<1> QED BY <1>2, <1>3, <1>4, <1>5, <1>6

LEMMA LineParks ==
    ASSUME SessionTypeOK, Line, NEW c \in Clicks, NEW x, NEW ts \in Seq(Tasks),
           Runs(Request(c)), Parked(c, x, ts)
    PROVE  Line' /\ \A d \in Clicks : Unfinished(d)' <=> d = c
<1>1. PICK r \in Seq(Tasks) : /\ queue' = Tail(queue) \o r
                              /\ ToSet(r) = {t \in ToSet(ts) : job[t] = "parked"}
  BY DEF Parked
<1>2. r \in Seq(Jobs) /\ ToSet(r) \subseteq Tasks
  BY SeqMonotonic, SetWithin, NamesApart
<1>3. ToSet(queue') = ToSet(Tail(queue)) \cup ToSet(r) /\ Once(queue')
  <2>1. Tail(queue) \in Seq(Jobs) /\ Once(Tail(queue))
    BY RequestRuns
  <2>2. ToSet(Tail(queue) \o r) = ToSet(Tail(queue)) \cup ToSet(r)
    BY <2>1, SetOfMixed
  <2>3. Once(Tail(queue) \o r)
    BY <2>1, OnceJoin
  <2> QED BY <1>1, <2>2, <2>3
<1>4. sleepers' = <<c>>
  <2>1. sleepers = <<>>
    BY RequestRuns
  <2>2. sleepers' = Append(sleepers, c)
    BY DEF Parked
  <2> QED BY <2>1, <2>2
<1>5. job'[Request(c)] = "parked" /\ \A d \in Clicks : d # c => job'[Request(d)] = job[Request(d)]
  BY DEF Parked
<1>6. \A d \in Clicks : Unfinished(d)' <=> d = c
  BY <1>5, RequestRuns DEF Unfinished
<1>7. ASSUME NEW j \in Jobs, job'[j] \in {"queued", "cancelled", "doomed"} PROVE j \in ToSet(queue')
  <2>1. CASE j \in Tasks
    <3>1. job[j] \in {"queued", "cancelled", "doomed"} \/ j \in ToSet(r)
      BY <1>1, <1>7, <2>1 DEF Parked
    <3>2. j # Request(c)
      BY <2>1, NamesApart
    <3> QED BY <1>3, <3>1, <3>2, RequestRuns DEF Line
  <2>2. CASE j \notin Tasks
    <3>1. PICK d \in Clicks : j = Request(d)
      BY <2>2, NamesApart
    <3> QED BY <1>5, <1>7, <3>1, <1>3, RequestRuns DEF Line
  <2> QED BY <2>1, <2>2
<1>8. ASSUME NEW d \in Clicks, Request(d) \in ToSet(queue') PROVE job'[Request(d)] = "queued"
  <2>1. Request(d) \in ToSet(Tail(queue))
    BY <1>2, <1>3, <1>8, NamesApart
  <2> QED BY <1>5, <2>1, RequestRuns DEF Line
<1>9. \A d \in Clicks : job'[Request(d)] \in {"none", "queued", "parked", "done"}
  BY <1>5 DEF Line
<1>10. \A d \in Clicks : job'[Request(d)] = "parked" => d = c
  BY <1>6 DEF Unfinished
<1> QED BY <1>3, <1>4, <1>5, <1>6, <1>7, <1>8, <1>9, <1>10 DEF Line

LEMMA LineEnds ==
    ASSUME SessionTypeOK, Line, NEW c \in Clicks, NEW ts \in Seq(Tasks),
           Runs(Request(c)), Ended(c, ts)
    PROVE  Line' /\ \A d \in Clicks : ~Unfinished(d)'
<1>1. ts \in Seq(Jobs) /\ ToSet(ts) \subseteq Tasks /\ queue' = Tail(queue) \o ts
  BY SeqMonotonic, SetWithin, NamesApart DEF Ended
<1>2. ToSet(queue') = ToSet(Tail(queue)) \cup ToSet(ts) /\ Once(queue')
  <2>1. Tail(queue) \in Seq(Jobs) /\ Once(Tail(queue))
    BY RequestRuns
  <2>2. ToSet(Tail(queue) \o ts) = ToSet(Tail(queue)) \cup ToSet(ts)
    BY <2>1, SetOfMixed
  <2>3. Once(Tail(queue) \o ts)
    BY <2>1, OnceJoin
  <2> QED BY <1>1, <2>2, <2>3
<1>3. job'[Request(c)] = "done" /\ \A d \in Clicks : d # c => job'[Request(d)] = job[Request(d)]
  BY DEF Ended
<1>4. \A d \in Clicks : ~Unfinished(d)'
  BY <1>3, RequestRuns DEF Unfinished
<1>5. ASSUME NEW j \in Jobs, job'[j] \in {"queued", "cancelled", "doomed"} PROVE j \in ToSet(queue')
  <2>1. CASE j \in Tasks
    <3>1. job[j] \in {"queued", "cancelled", "doomed"} \/ j \in ToSet(ts)
      BY <1>5, <2>1 DEF Ended
    <3>2. j # Request(c)
      BY <2>1, NamesApart
    <3> QED BY <1>2, <3>1, <3>2, RequestRuns DEF Line
  <2>2. CASE j \notin Tasks
    <3>1. PICK d \in Clicks : j = Request(d)
      BY <2>2, NamesApart
    <3> QED BY <1>3, <1>5, <3>1, <1>2, RequestRuns DEF Line
  <2> QED BY <2>1, <2>2
<1>6. ASSUME NEW d \in Clicks, Request(d) \in ToSet(queue') PROVE job'[Request(d)] = "queued"
  <2>1. Request(d) \in ToSet(Tail(queue))
    BY <1>1, <1>2, <1>6, NamesApart
  <2> QED BY <1>3, <2>1, RequestRuns DEF Line
<1>7. \A d \in Clicks : job'[Request(d)] \in {"none", "queued", "parked", "done"}
  BY <1>3 DEF Line
<1>8. sleepers' = <<>>
  BY RequestRuns DEF Ended
<1> QED BY <1>2, <1>4, <1>5, <1>6, <1>7, <1>8 DEF Line, Unfinished

LEMMA LineFinished ==
    ASSUME SessionTypeOK, Line, NEW t \in Tasks, NEW q \in Seq(Jobs), Finished(t, q),
           (q = queue /\ job[t] = "parked") \/ (Runs(t) /\ q = Tail(queue))
    PROVE  /\ Line' /\ \A d \in Clicks : Unfinished(d)' <=> Unfinished(d)
           /\ \A d \in Clicks : ~Unfinished(d) => job'[Request(d)] = job[Request(d)]
<1>1. Once(q) /\ ToSet(q) \subseteq ToSet(queue) /\ \A j \in ToSet(queue) : j = t \/ j \in ToSet(q)
  <2>1. CASE Runs(t) /\ q = Tail(queue)
    <3>1. queue \in Seq(Jobs) /\ queue # <<>> /\ Head(queue) = t
      BY <2>1 DEF Runs, SessionTypeOK
    <3> QED BY <2>1, <3>1, OnceRest, SetOfRest DEF Line
  <2> QED BY <2>1 DEF Line
<1>2. \A u \in Tasks : job'[u] = IF u = t THEN "done" ELSE job[u]
  BY DEF Finished
<1>3. CASE sleepers' = sleepers /\ queue' = q /\ \A d \in Clicks : job'[Request(d)] = job[Request(d)]
  <2>1. \A d \in Clicks : Unfinished(d)' <=> Unfinished(d)
    BY <1>3 DEF Unfinished
  <2>0. \A d \in Clicks : ~Unfinished(d) => job'[Request(d)] = job[Request(d)]
    BY <1>3
  <2>2. ASSUME NEW j \in Jobs, job'[j] \in {"queued", "cancelled", "doomed"} PROVE j \in ToSet(q)
    <3>1. CASE j \in Tasks
      BY <1>1, <1>2, <2>2, <3>1 DEF Line
    <3>2. CASE j \notin Tasks
      <4>1. PICK d \in Clicks : j = Request(d)
        BY <3>2, NamesApart
      <4> QED BY <1>1, <1>3, <2>2, <4>1, NamesApart DEF Line
    <3> QED BY <3>1, <3>2
  <2> QED BY <1>1, <1>3, <2>0, <2>1, <2>2 DEF Line
<1>4. CASE \E c \in Clicks : /\ sleepers = <<c>> /\ sleepers' = <<>> /\ queue' = q \o <<Request(c)>>
                             /\ job'[Request(c)] = "queued"
                             /\ \A d \in Clicks : d # c => job'[Request(d)] = job[Request(d)]
  <2>1. PICK c \in Clicks : /\ sleepers = <<c>> /\ sleepers' = <<>> /\ queue' = q \o <<Request(c)>>
                            /\ job'[Request(c)] = "queued"
                            /\ \A d \in Clicks : d # c => job'[Request(d)] = job[Request(d)]
    BY <1>4
  <2>2. job[Request(c)] = "parked"
    <3>1. PICK d \in Clicks : sleepers = <<d>> /\ job[Request(d)] = "parked"
      BY <2>1 DEF Line
    <3>2. <<c>>[1] = c /\ <<d>>[1] = d /\ <<c>> = <<d>>
      BY <2>1, <3>1
    <3> QED BY <3>1, <3>2
  <2>3. \A d \in Clicks : /\ Unfinished(d)' <=> Unfinished(d)
                          /\ ~Unfinished(d) => job'[Request(d)] = job[Request(d)]
    BY <2>1, <2>2 DEF Unfinished
  <2>4. Request(c) \notin ToSet(q) /\ Request(c) \in Jobs
    BY <1>1, <2>2, NamesApart DEF Line
  <2>5. queue' = Append(q, Request(c)) /\ Once(queue') /\ ToSet(queue') = ToSet(q) \cup {Request(c)}
    <3>1. Once(Append(q, Request(c))) /\ q \o <<Request(c)>> = Append(q, Request(c))
      BY <1>1, <2>4, OnceAppend
    <3>2. ToSet(Append(q, Request(c))) = ToSet(q) \cup {Request(c)}
      BY <2>4, SetOfAppend
    <3> QED BY <2>1, <3>1, <3>2
  <2>6. ASSUME NEW j \in Jobs, job'[j] \in {"queued", "cancelled", "doomed"} PROVE j \in ToSet(queue')
    <3>1. CASE j \in Tasks
      BY <1>1, <1>2, <2>5, <2>6, <3>1 DEF Line
    <3>2. CASE j \notin Tasks
      <4>1. PICK d \in Clicks : j = Request(d)
        BY <3>2, NamesApart
      <4> QED BY <1>1, <2>1, <2>5, <2>6, <4>1, NamesApart DEF Line
    <3> QED BY <3>1, <3>2
  <2>7. ASSUME NEW d \in Clicks, Request(d) \in ToSet(queue') PROVE job'[Request(d)] = "queued"
    <3>1. CASE d = c
      BY <2>1, <3>1
    <3>2. CASE d # c
      BY <1>1, <2>1, <2>5, <2>7, <3>2, NamesApart DEF Line
    <3> QED BY <3>1, <3>2
  <2>8. \A d \in Clicks : job'[Request(d)] \in {"none", "queued", "done"}
    BY <2>1, <2>2, <2>3 DEF Line, Unfinished
  <2> QED BY <2>1, <2>3, <2>5, <2>6, <2>7, <2>8 DEF Line
<1> QED BY <1>3, <1>4 DEF Finished, Line

-----------------------------------------------------------------------------
(* What runs is the selected radio's *)

Live(t) == job[t] \in {"queued", "parked", "cancelled", "doomed"}

\* A task has begun before a request is made, so that none is cancelled before it
\* has run; who cancels waits for it: a switch for the list of the radio it
\* leaves, the panel's switch for the panel.
Order ==
    /\ \A t \in Tasks : job[t] # "doomed"
    /\ \A t \in Tasks, c \in Clicks : job[t] = "queued" => ~Unfinished(c)
    /\ \A c \in Clicks : ~Unfinished(c) => awaited[c] = NoJob
    /\ \A c \in Clicks : awaited[c] # NoJob =>
          \/ want[c] \in Radios /\ awaited[c] = current
          \/ /\ want[c] = "panel_off" /\ awaited[c] \in Tasks /\ awaited[c][2] = "panel"
             /\ "panel" \notin enabled
    /\ \A t \in Tasks : job[t] = "cancelled" =>
          \E c \in Clicks : awaited[c] # NoJob /\ (want[c] \in Radios \/ t = awaited[c])

\* Every task alive is in the list that the next tear-down cancels and belongs to
\* the selected radio; what the session has for dial and panel is alive, and a
\* listener as long as it is not cancelled.
Placed ==
    /\ current = NoJob <=> radio = NoRadio
    /\ \A t \in Tasks : Live(t) => t \in ToSet(TasksHeld) /\ home[t] = radio
    /\ \A d \in {rc28, panel} \ {NoJob} :
          Live(d) /\ (job[d] \in {"queued", "parked"} => d \in listeners)

OfTheirKind ==
    /\ rc28 = NoJob \/ rc28[2] = "rc28"
    /\ panel = NoJob \/ panel[2] = "panel"
    /\ panelTask = NoJob \/ panelTask[2] = "panel"
    /\ \A t \in stopped : t[2] = "rc28"

InOrder == Line /\ Order /\ Placed /\ OfTheirKind

LEMMA UndoneIsNothing ==
    ASSUME NEW ts \in Seq(Tasks), Undone(ts) = <<>>, NEW t \in ToSet(ts)
    PROVE  job[t] = "done"
<1>1. t \in Tasks
  BY SetWithin
<1>2. ToSet(Undone(ts)) = ToSet(ts) \cap {u \in Tasks : job[u] # "done"}
  BY ThoseAre DEF Undone
<1>3. ToSet(Undone(ts)) = {}
  BY SetOfEmpty
<1> QED BY <1>1, <1>2, <1>3

LEMMA NothingLeft ==
    ASSUME SessionTypeOK, NEW c \in Clicks, Left(c) = <<>>
    PROVE  /\ awaited[c] \in Clicks => \A t \in ToSet(lists[awaited[c]]) : job[t] = "done"
           /\ awaited[c] \in Tasks => job[awaited[c]] = "done"
<1>1. ASSUME awaited[c] \in Clicks PROVE \A t \in ToSet(lists[awaited[c]]) : job[t] = "done"
  <2>1. Undone(lists[awaited[c]]) = <<>> /\ lists[awaited[c]] \in Seq(Tasks)
    BY <1>1 DEF Left, SessionTypeOK
  <2> QED BY <2>1, UndoneIsNothing
<1>2. ASSUME awaited[c] \in Tasks PROVE job[awaited[c]] = "done"
  <2>1. awaited[c] \notin Clicks /\ awaited[c] # NoJob
    BY <1>2, SessionAssumption, NamesApart
  <2>2. Undone(<<awaited[c]>>) = <<>> /\ <<awaited[c]>> \in Seq(Tasks)
    BY <1>2, <2>1 DEF Left
  <2>3. awaited[c] \in ToSet(<<awaited[c]>>)
    BY SetOfOne
  <2> QED BY <2>2, <2>3, UndoneIsNothing
<1> QED BY <1>1, <1>2

LEMMA HeldTasks ==
    ASSUME SessionTypeOK
    PROVE  TasksHeld \in Seq(Tasks) /\ ToSet(TasksHeld) \subseteq Tasks
<1>1. TasksHeld \in Seq(Tasks)
  <2>1. <<>> \in Seq(Tasks)
    OBVIOUS
  <2> QED BY <2>1 DEF TasksHeld, SessionTypeOK
<1> QED BY <1>1, SetWithin

LEMMA ClickInOrder ==
    ASSUME SessionTypeOK, InOrder, "overlap" \notin pace, NEW c \in Clicks, Click(c)
    PROVE  InOrder'
<1> USE DEF askedFor, built, refs
<1>1. queue = <<>> /\ sleepers = <<>>
  BY DEF Click, MayClick, Settled
<1>2. ToSet(queue) = {} /\ \A j \in Jobs : job[j] \notin {"queued", "cancelled", "doomed"}
  BY <1>1, SetOfEmpty DEF InOrder, Line
<1>3. \A d \in Clicks : job[Request(d)] \in {"none", "done"} /\ ~Unfinished(d)
  <2>1. \A d \in Clicks : sleepers # <<d>>
    BY <1>1
  <2> QED BY <1>2, <2>1, NamesApart DEF InOrder, Line, Unfinished
<1>4. /\ \A d \in Clicks : job'[Request(d)] = IF d = c THEN "queued" ELSE job[Request(d)]
      /\ \A t \in Tasks : job'[t] = job[t]
  BY NamesApart DEF Click, SessionTypeOK
<1>5. queue' = <<Request(c)>> /\ ToSet(queue') = {Request(c)} /\ Once(queue')
  <2>1. queue' = <<Request(c)>>
    BY <1>1 DEF Click
  <2>2. Len(<<Request(c)>>) = 1
    OBVIOUS
  <2>3. Once(<<Request(c)>>)
    BY <2>2 DEF Once
  <2> QED BY <2>1, <2>3, SetOfOne
<1>6. \A d \in Clicks : Unfinished(d)' <=> d = c
  BY <1>3, <1>4 DEF Unfinished
<1>7. Line'
  <2>1. \A j \in Jobs : job'[j] \in {"queued", "cancelled", "doomed"} => j = Request(c)
    BY <1>2, <1>3, <1>4, NamesApart
  <2>2. sleepers' = <<>>
    BY <1>1 DEF Click
  <2>3. \A d \in Clicks : job'[Request(d)] \in {"none", "queued", "done"}
    BY <1>3, <1>4
  <2> QED BY <1>4, <1>5, <1>6, <2>1, <2>2, <2>3, NamesApart DEF Line
<1>8. Order'
  <2>1. \A d \in Clicks : awaited'[d] = NoJob
    BY <1>3 DEF InOrder, Order, Click
  <2> QED BY <1>2, <1>4, <2>1, NamesApart DEF Order
<1>9. Placed' /\ OfTheirKind'
  <2>1. \A t \in Tasks : Live(t)' <=> Live(t)
    BY <1>4 DEF Live
  <2>2. TasksHeld' = TasksHeld
    BY DEF Click, TasksHeld
  <2>3. {rc28, panel} \ {NoJob} \subseteq Tasks
    BY DEF SessionTypeOK
  <2> QED BY <1>4, <2>1, <2>2, <2>3 DEF Click, InOrder, Placed, OfTheirKind
<1> QED BY <1>7, <1>8, <1>9 DEF InOrder

LEMMA BeginInOrder ==
    ASSUME SessionTypeOK, InOrder, NEW c \in Clicks, BeginSwitch(c)
    PROVE  InOrder'
<1> USE DEF askedFor, built, refs
<1>1. Runs(Request(c)) /\ want[c] \in Radios /\ awaited[c] = NoJob
  BY DEF BeginSwitch
<1>2. TasksHeld \in Seq(Tasks) /\ ToSet(TasksHeld) \subseteq Tasks
  BY HeldTasks
<1>3. Parked(c, current, TasksHeld)
  BY <1>2, ParksEffect DEF BeginSwitch, Teardown
<1>4. Line' /\ \A d \in Clicks : Unfinished(d)' <=> d = c
  BY <1>1, <1>2, <1>3, LineParks DEF InOrder
<1>5. \A d \in Clicks : Unfinished(d) <=> d = c
  BY <1>1, RequestRuns DEF InOrder
<1>6. current # NoJob
  BY ThoseOfOne DEF BeginSwitch, Undone, TasksHeld
<1>7. \A d \in Clicks : awaited[d] = NoJob /\ awaited'[d] = IF d = c THEN current ELSE NoJob
  BY <1>1, <1>3, <1>5 DEF InOrder, Order, Parked, SessionTypeOK
<1>8. \A t \in Tasks : job[t] \notin {"queued", "doomed", "cancelled"}
  BY <1>5, <1>7 DEF InOrder, Order
<1>9. \A t \in Tasks : job'[t] = IF job[t] = "parked" THEN "cancelled" ELSE job[t]
  <2>1. \A t \in Tasks : job[t] = "parked" => t \in ToSet(TasksHeld)
    BY DEF InOrder, Placed, Live
  <2> QED BY <1>3, <1>8, <2>1 DEF Parked
<1>10. Order'
  BY <1>1, <1>4, <1>6, <1>7, <1>8, <1>9 DEF Order, BeginSwitch
<1>11. Placed' /\ OfTheirKind'
  <2>1. \A t \in Tasks : Live(t)' <=> Live(t)
    BY <1>9 DEF Live
  <2>2. TasksHeld' = TasksHeld
    BY DEF BeginSwitch, TasksHeld
  <2>3. {rc28, panel} \ {NoJob} \subseteq Tasks
    BY DEF SessionTypeOK
  <2>4. \A t \in Tasks : job'[t] \notin {"queued", "parked"}
    BY <1>8, <1>9
  <2> QED BY <2>1, <2>2, <2>3, <2>4 DEF BeginSwitch, InOrder, Placed, OfTheirKind
<1> QED BY <1>4, <1>10, <1>11 DEF InOrder

LEMMA AwaitInOrder ==
    ASSUME SessionTypeOK, InOrder, NEW c \in Clicks, AwaitNext(c)
    PROVE  InOrder'
<1> USE DEF askedFor, built, refs
<1>1. Runs(Request(c)) /\ <<>> \in Seq(Tasks)
  BY DEF AwaitNext
<1>2. Parked(c, awaited[c], <<>>)
  BY <1>1, ParksEffect DEF AwaitNext
<1>3. Line' /\ \A d \in Clicks : Unfinished(d)' <=> d = c
  BY <1>1, <1>2, LineParks DEF InOrder
<1>4. \A d \in Clicks : Unfinished(d) <=> d = c
  BY <1>1, RequestRuns DEF InOrder
<1>5. awaited' = awaited /\ \A t \in Tasks : job'[t] = job[t]
  BY <1>2, SetOfEmpty DEF Parked, SessionTypeOK
<1>6. \A t \in Tasks : Live(t)' <=> Live(t)
  BY <1>5 DEF Live
<1>7. TasksHeld' = TasksHeld
  BY DEF AwaitNext, TasksHeld
<1>8. {rc28, panel} \ {NoJob} \subseteq Tasks
  BY DEF SessionTypeOK
<1>9. Order'
  BY <1>3, <1>4, <1>5 DEF InOrder, Order, AwaitNext
<1>10. Placed' /\ OfTheirKind'
  BY <1>5, <1>6, <1>7, <1>8 DEF AwaitNext, InOrder, Placed, OfTheirKind
<1> QED BY <1>3, <1>9, <1>10 DEF InOrder

\* A switch that is over, or has nothing to wait for, leaves no task alive.
LEMMA NoneAlive ==
    ASSUME SessionTypeOK, InOrder, NEW c \in Clicks, Runs(Request(c)), want[c] \in Radios,
           Left(c) = <<>>, awaited[c] = NoJob => Undone(TasksHeld) = <<>>,
           NEW t \in Tasks
    PROVE  ~Live(t)
<1>1. want[c] # "panel_off"
  BY SessionAssumption
<1>2. CASE awaited[c] = NoJob
  <2>1. \A u \in ToSet(TasksHeld) : job[u] = "done"
    BY <1>2, HeldTasks, UndoneIsNothing
  <2> QED BY <2>1 DEF InOrder, Placed, Live
<1>3. CASE awaited[c] # NoJob
  <2>1. awaited[c] = current /\ current # NoJob /\ current \in Clicks
    BY <1>1, <1>3 DEF InOrder, Order, SessionTypeOK
  <2>2. \A u \in ToSet(TasksHeld) : job[u] = "done"
    BY <2>1, NothingLeft DEF TasksHeld
  <2> QED BY <2>2 DEF InOrder, Placed, Live
<1> QED BY <1>2, <1>3

LEMMA FinishInOrder ==
    ASSUME SessionTypeOK, InOrder, NEW c \in Clicks, FinishSwitch(c)
    PROVE  InOrder'
<1> DEFINE ts == <<<<c, "control">>>> \o NewRc28(c) \o NewPanel(c)
<1>1. ts \in Seq(Tasks) /\ ToSet(ts) \subseteq Tasks
  BY NewDrivers, SetWithin
<1>2. /\ Ends(c, ts) /\ Created(c, ts) /\ lists' = [lists EXCEPT ![c] = ts]
      /\ Runs(Request(c)) /\ want[c] \in Radios /\ radio' = want[c] /\ current' = c
      /\ UNCHANGED <<pace, want, enabled, stopped>>
  BY DEF FinishSwitch, askedFor
<1> HIDE DEF ts
<1>3. \A t \in Tasks : ~Live(t)
  BY <1>2, NoneAlive DEF FinishSwitch
<1>4. Ended(c, ts)
  BY <1>1, <1>2, EndsEffect
<1>5. Line' /\ \A d \in Clicks : ~Unfinished(d)'
  BY <1>1, <1>2, <1>4, LineEnds DEF InOrder
<1>6. \A d \in Clicks : Unfinished(d) <=> d = c
  BY <1>2, RequestRuns DEF InOrder
<1>7. \A d \in Clicks : awaited'[d] = NoJob
  BY <1>4, <1>6 DEF InOrder, Order, Ended, SessionTypeOK
<1>8. \A t \in Tasks : /\ job'[t] = IF t \in ToSet(ts) THEN "queued" ELSE job[t]
                       /\ Live(t)' <=> t \in ToSet(ts)
                       /\ job'[t] \notin {"doomed", "cancelled"}
  BY <1>3, <1>4 DEF Ended, Live
<1>9. Order'
  BY <1>5, <1>7, <1>8 DEF Order
<1>10. current' # NoJob /\ radio' # NoRadio
  BY <1>2, SessionAssumption
<1>11. TasksHeld' = ts
  BY <1>2, <1>10 DEF TasksHeld, SessionTypeOK
<1>12. rc28 = NoJob /\ panel = NoJob
  BY <1>3 DEF InOrder, Placed, SessionTypeOK
<1>13. \A t \in ToSet(ts) : home'[t] = radio' /\ (t[2] # "control" => t \in listeners')
  BY <1>1, <1>2 DEF Created
<1>14. /\ rc28' # NoJob => rc28' = <<c, "rc28">> /\ rc28' \in ToSet(ts)
       /\ panel' # NoJob => panel' = <<c, "panel">> /\ panel' \in ToSet(ts)
  BY <1>2, <1>12 DEF Created
<1>15. \A d \in {rc28', panel'} \ {NoJob} : d \in ToSet(ts) /\ d[2] # "control"
  BY <1>14
<1>16. Placed'
  BY <1>1, <1>8, <1>10, <1>11, <1>13, <1>15 DEF Placed
<1>17. panelTask' = <<c, "panel">> \/ panelTask' = panelTask
  BY <1>2 DEF Created
<1>18. OfTheirKind'
  BY <1>2, <1>14, <1>17 DEF OfTheirKind, InOrder
<1> QED BY <1>5, <1>9, <1>16, <1>18 DEF InOrder

LEMMA SwitchOnInOrder ==
    ASSUME SessionTypeOK, InOrder, NEW c \in Clicks, SwitchOn(c)
    PROVE  InOrder' /\ awaited[c] = NoJob
<1> DEFINE ts == IF radio = NoRadio THEN <<>>
                 ELSE IF want[c] = "rc28_on" THEN NewRc28(c) ELSE NewPanel(c)
<1>1. ts \in Seq(Tasks) /\ ToSet(ts) \subseteq Tasks
  <2>1. <<>> \in Seq(Tasks)
    OBVIOUS
  <2> QED BY <2>1, NewDrivers, SetWithin
<1>2. /\ Ends(c, ts) /\ Created(c, ts)
      /\ lists' = IF current = NoJob THEN lists ELSE [lists EXCEPT ![current] = @ \o ts]
      /\ Runs(Request(c)) /\ want[c] \in {"rc28_on", "panel_on"}
      /\ UNCHANGED <<pace, want, current, radio, stopped>>
  BY DEF SwitchOn, askedFor
<1>3. ts # <<>> => radio # NoRadio
  OBVIOUS
<1> HIDE DEF ts
<1>4. Ended(c, ts)
  BY <1>1, <1>2, EndsEffect
<1>5. Line' /\ \A d \in Clicks : ~Unfinished(d)'
  BY <1>1, <1>2, <1>4, LineEnds DEF InOrder
<1>6. \A d \in Clicks : Unfinished(d) <=> d = c
  BY <1>2, RequestRuns DEF InOrder
<1>7. \A d \in Clicks : awaited[d] = NoJob /\ awaited'[d] = NoJob
  <2>1. awaited[c] = NoJob
    BY <1>2, SessionAssumption DEF InOrder, Order
  <2> QED BY <1>4, <1>6, <2>1 DEF InOrder, Order, Ended, SessionTypeOK
<1>8. \A t \in Tasks : /\ job'[t] = IF t \in ToSet(ts) THEN "queued" ELSE job[t]
                       /\ Live(t)' <=> Live(t) \/ t \in ToSet(ts)
                       /\ job'[t] \notin {"doomed", "cancelled"}
  BY <1>4, <1>7 DEF Ended, Live, InOrder, Order
<1>9. Order'
  BY <1>5, <1>7, <1>8 DEF Order
<1>10. \A t \in ToSet(TasksHeld) \cup ToSet(ts) : t \in ToSet(TasksHeld')
  <2>1. CASE current = NoJob
    <3>1. ts = <<>>
      BY <1>3, <2>1 DEF InOrder, Placed
    <3> QED BY <1>2, <2>1, <3>1, SetOfEmpty DEF TasksHeld
  <2>2. CASE current # NoJob
    <3>1. TasksHeld' = TasksHeld \o ts
      BY <1>2, <2>2 DEF TasksHeld, SessionTypeOK
    <3>2. TasksHeld \in Seq(Tasks)
      BY HeldTasks
    <3>3. ToSet(TasksHeld \o ts) = ToSet(TasksHeld) \cup ToSet(ts)
      BY <1>1, <3>2, SetOfJoin
    <3> QED BY <3>1, <3>3
  <2> QED BY <2>1, <2>2
<1>11. \A t \in Tasks : home'[t] = IF t \in ToSet(ts) THEN radio ELSE home[t]
  BY <1>2 DEF Created
<1>12. \A t \in Tasks : (t \in listeners \/ (t \in ToSet(ts) /\ t[2] # "control")) => t \in listeners'
  BY <1>2 DEF Created
<1>13. rc28' = rc28 \/ (rc28' = <<c, "rc28">> /\ rc28' \in ToSet(ts))
  BY <1>2 DEF Created
<1>14. panel' = panel \/ (panel' = <<c, "panel">> /\ panel' \in ToSet(ts))
  BY <1>2 DEF Created
<1>17. panelTask' = panelTask \/ panelTask' = <<c, "panel">>
  BY <1>2 DEF Created
<1>18. \A d \in {rc28', panel'} \ {NoJob} :
          d \in Tasks /\ (\/ d \in {rc28, panel} \ {NoJob} 
                          \/ d \in ToSet(ts) /\ d[2] # "control")
  <2>1. {rc28, panel} \subseteq Tasks \cup {NoJob}
    BY DEF SessionTypeOK
  <2>2. <<c, "rc28">>[2] # "control" /\ <<c, "panel">>[2] # "control"
    OBVIOUS
  <2>3. ASSUME NEW d, d # NoJob, d = rc28' \/ d = panel'
        PROVE  \/ d \in {rc28, panel} \ {NoJob}
               \/ d \in ToSet(ts) /\ d \in {<<c, "rc28">>, <<c, "panel">>}
    BY <1>13, <1>14, <2>3
  <2>4. \A d \in {<<c, "rc28">>, <<c, "panel">>} : d[2] # "control"
    BY <2>2
  <2> QED BY <1>1, <2>1, <2>3, <2>4
<1>15. Placed'
  <2>1. \A t \in Tasks : Live(t)' => t \in ToSet(TasksHeld') /\ home'[t] = radio'
    BY <1>2, <1>8, <1>10, <1>11 DEF InOrder, Placed
  <2>2. \A d \in {rc28', panel'} \ {NoJob} :
           Live(d)' /\ (job'[d] \in {"queued", "parked"} => d \in listeners')
    <3>1. ASSUME NEW d \in Tasks, d \in {rc28, panel} \ {NoJob}
          PROVE  Live(d)' /\ (job'[d] \in {"queued", "parked"} => d \in listeners')
      <4>1. Live(d) /\ (job[d] \in {"queued", "parked"} => d \in listeners)
        BY <3>1 DEF InOrder, Placed
      <4>2. job'[d] = job[d] \/ d \in ToSet(ts)
        BY <1>8
      <4>3. d[2] # "control"
        BY <3>1 DEF InOrder, OfTheirKind
      <4> QED BY <1>8, <1>12, <4>1, <4>2, <4>3 DEF Live
    <3>2. ASSUME NEW d \in Tasks, d \in ToSet(ts), d[2] # "control"
          PROVE  Live(d)' /\ (job'[d] \in {"queued", "parked"} => d \in listeners')
      BY <1>8, <1>12, <3>2
    <3> QED BY <1>18, <3>1, <3>2
  <2> QED BY <1>2, <2>1, <2>2 DEF InOrder, Placed
<1>16. OfTheirKind'
  BY <1>2, <1>13, <1>14, <1>17 DEF InOrder, OfTheirKind
<1> QED BY <1>5, <1>7, <1>9, <1>15, <1>16 DEF InOrder

\* A request whose awaits are over, or that has none, ends and creates nothing.
LEMMA OffInOrder ==
    ASSUME SessionTypeOK, InOrder, NEW c \in Clicks, Runs(Request(c)), Ended(c, <<>>),
           \A t \in Tasks : job[t] # "cancelled",
           UNCHANGED <<current, radio, lists, home, rc28, panel, listeners>>, OfTheirKind'
    PROVE  /\ InOrder'
           /\ \A d \in Clicks : awaited'[d] = NoJob /\ ~Unfinished(d)'
           /\ \A t \in Tasks : job'[t] = job[t]
<1>1. <<>> \in Seq(Tasks)
  OBVIOUS
<1>2. Line' /\ \A d \in Clicks : ~Unfinished(d)'
  BY <1>1, LineEnds DEF InOrder
<1>3. \A d \in Clicks : Unfinished(d) <=> d = c
  BY RequestRuns DEF InOrder
<1>4. \A d \in Clicks : awaited'[d] = NoJob
  BY <1>3 DEF InOrder, Order, Ended, SessionTypeOK
<1>5. \A t \in Tasks : job'[t] = job[t]
  BY SetOfEmpty DEF Ended
<1>6. Order'
  BY <1>2, <1>4, <1>5 DEF InOrder, Order
<1>7. \A t \in Tasks : Live(t)' <=> Live(t)
  BY <1>5 DEF Live
<1>8. TasksHeld' = TasksHeld
  BY DEF TasksHeld
<1>9. {rc28, panel} \ {NoJob} \subseteq Tasks
  BY DEF SessionTypeOK
<1>10. Placed'
  BY <1>5, <1>7, <1>8, <1>9 DEF InOrder, Placed
<1> QED BY <1>2, <1>4, <1>5, <1>6, <1>10 DEF InOrder

LEMMA Rc28OffInOrder ==
    ASSUME SessionTypeOK, InOrder, NEW c \in Clicks, Rc28Off(c)
    PROVE  /\ InOrder'
           /\ \A d \in Clicks : awaited[d] = NoJob /\ awaited'[d] = NoJob /\ ~Unfinished(d)'
           /\ \A t \in Tasks : job'[t] = job[t]
<1>1. Runs(Request(c)) /\ want[c] = "rc28_off" /\ <<>> \in Seq(Tasks) /\ Ends(c, <<>>)
  BY DEF Rc28Off
<1>2. Ended(c, <<>>)
  BY <1>1, EndsEffect
<1>3. \A d \in Clicks : awaited[d] = NoJob
  <2>1. awaited[c] = NoJob
    BY <1>1, SessionAssumption DEF InOrder, Order
  <2> QED BY <1>1, <2>1, RequestRuns DEF InOrder, Order
<1>4. \A t \in Tasks : job[t] # "cancelled"
  BY <1>3 DEF InOrder, Order
<1>5. OfTheirKind'
  BY DEF InOrder, OfTheirKind, Rc28Off, refs
<1>6. UNCHANGED <<current, radio, lists, home, rc28, panel, listeners>>
  BY DEF Rc28Off, built, refs
<1> QED BY <1>1, <1>2, <1>3, <1>4, <1>5, <1>6, OffInOrder

LEMMA PanelOffInOrder ==
    ASSUME SessionTypeOK, InOrder, NEW c \in Clicks, PanelOff(c)
    PROVE  /\ InOrder'
           /\ \A d \in Clicks : awaited'[d] # NoJob => d = c
           /\ \A d \in Clicks : Unfinished(d)' => d = c
           /\ \A d \in Clicks : d # c => job'[Request(d)] = job[Request(d)]
           /\ \A t \in Tasks : job[t] = "done" => job'[t] = "done"
<1>1. /\ Runs(Request(c)) /\ want[c] = "panel_off" /\ Left(c) = <<>>
      /\ enabled' = enabled \ {"panel"}
      /\ UNCHANGED <<want, current, radio, lists, home, rc28, panel, listeners, stopped>>
  BY DEF PanelOff, askedFor, built
<1>2. \A d \in Clicks : Unfinished(d) <=> d = c
  BY <1>1, RequestRuns DEF InOrder
<1>3. want[c] \notin Radios
  BY <1>1, SessionAssumption
<1>4. CASE awaited[c] = NoJob /\ panelTask # NoJob /\ job[panelTask] # "done"
  <2>1. panelTask \in Tasks /\ <<panelTask>> \in Seq(Tasks)
    BY <1>4 DEF SessionTypeOK
  <2>2. Parked(c, panelTask, <<panelTask>>) /\ UNCHANGED panelTask
    BY <1>4, <2>1, ParksEffect DEF PanelOff
  <2>3. Line' /\ \A d \in Clicks : Unfinished(d)' <=> d = c
    BY <1>1, <2>1, <2>2, LineParks DEF InOrder
  <2>4. \A d \in Clicks : awaited[d] = NoJob /\ awaited'[d] = IF d = c THEN panelTask ELSE NoJob
    BY <1>2, <1>4, <2>2 DEF InOrder, Order, Parked, SessionTypeOK
  <2>5. \A t \in Tasks : job[t] \notin {"queued", "doomed", "cancelled"}
    BY <1>2, <2>4 DEF InOrder, Order
  <2>6. \A t \in Tasks : job'[t] = IF t = panelTask /\ job[t] = "parked" THEN "cancelled" ELSE job[t]
    <3>1. ToSet(<<panelTask>>) = {panelTask}
      BY SetOfOne
    <3> QED BY <2>2, <2>5, <3>1 DEF Parked
  <2>7. panelTask[2] = "panel" /\ "panel" \notin enabled'
    BY <1>1, <1>4 DEF InOrder, OfTheirKind
  <2>8. Order'
    <3>1. \A t \in Tasks : job'[t] # "doomed" /\ job'[t] # "queued"
      BY <2>5, <2>6
    <3>2. \A d \in Clicks : awaited'[d] # NoJob => d = c /\ awaited'[d] = panelTask
      BY <2>4
    <3>3. \A t \in Tasks : job'[t] = "cancelled" => t = awaited'[c] /\ awaited'[c] # NoJob
      BY <1>4, <2>4, <2>5, <2>6
    <3>4. want'[c] = "panel_off"
      BY <1>1
    <3>5. \A d \in Clicks : awaited'[d] # NoJob =>
            want'[d] = "panel_off" /\ awaited'[d] \in Tasks /\ awaited'[d][2] = "panel"
      BY <2>1, <2>7, <3>2, <3>4
    <3>6. \A d \in Clicks : ~Unfinished(d)' => awaited'[d] = NoJob
      BY <2>3, <3>2
    <3> QED BY <2>7, <3>1, <3>3, <3>5, <3>6 DEF Order
  <2>9. \A t \in Tasks : Live(t)' <=> Live(t)
    BY <2>6 DEF Live
  <2>10. TasksHeld' = TasksHeld
    BY <1>1 DEF TasksHeld
  <2>11. {rc28, panel} \ {NoJob} \subseteq Tasks
    BY DEF SessionTypeOK
  <2>12. \A t \in Tasks : job'[t] \in {"queued", "parked"} => job[t] \in {"queued", "parked"}
    BY <2>6
  <2>13. Placed'
    BY <1>1, <2>9, <2>10, <2>11, <2>12 DEF InOrder, Placed
  <2>14. OfTheirKind'
    BY <1>1, <2>2 DEF InOrder, OfTheirKind
  <2>15. \A d \in Clicks : d # c => job'[Request(d)] = job[Request(d)]
    BY <2>2 DEF Parked
  <2> QED BY <2>3, <2>4, <2>6, <2>8, <2>13, <2>14, <2>15 DEF InOrder
<1>5. CASE ~(awaited[c] = NoJob /\ panelTask # NoJob /\ job[panelTask] # "done")
  <2>1. <<>> \in Seq(Tasks) /\ Ends(c, <<>>) /\ panelTask' = NoJob
    BY <1>5 DEF PanelOff
  <2>2. Ended(c, <<>>)
    BY <2>1, EndsEffect
  <2>3. \A t \in Tasks : job[t] # "cancelled"
    <3>1. awaited[c] # NoJob => awaited[c] \in Tasks /\ job[awaited[c]] = "done"
      BY <1>1, <1>3, NothingLeft DEF InOrder, Order
    <3>2. \A d \in Clicks : awaited[d] # NoJob => d = c
      BY <1>2 DEF InOrder, Order
    <3> QED BY <1>3, <3>1, <3>2 DEF InOrder, Order
  <2>4. OfTheirKind'
    BY <1>1, <2>1 DEF InOrder, OfTheirKind
  <2>5. \A d \in Clicks : d # c => job'[Request(d)] = job[Request(d)]
    BY <2>2 DEF Ended
  <2> QED BY <1>1, <2>2, <2>3, <2>4, <2>5, OffInOrder
<1> QED BY <1>4, <1>5

LEMMA TaskBeginsInOrder ==
    ASSUME SessionTypeOK, InOrder, NEW t \in Tasks, TaskBegins(t)
    PROVE  /\ InOrder'
           /\ \A d \in Clicks : job'[Request(d)] = job[Request(d)]
           /\ \A u \in Tasks : job[u] = "done" => job'[u] = "done"
<1> USE DEF askedFor, built, refs
<1>1. /\ queue \in Seq(Jobs) /\ queue # <<>> /\ Head(queue) = t /\ job[t] = "queued"
      /\ queue' = Tail(queue) /\ t \in Jobs /\ UNCHANGED sleepers
  BY NamesApart DEF TaskBegins, Runs, SessionTypeOK
<1>2. ToSet(queue) = {t} \cup ToSet(Tail(queue)) /\ Once(Tail(queue))
  BY <1>1, SetOfRest, OnceRest DEF InOrder, Line
<1>3. /\ \A d \in Clicks : job'[Request(d)] = job[Request(d)]
      /\ \A u \in Tasks : job'[u] = IF u = t THEN "parked" ELSE job[u]
      /\ \A j \in Jobs : j # t => job'[j] = job[j]
      /\ job'[t] = "parked"
  BY <1>1, NamesApart DEF TaskBegins, SessionTypeOK
<1>4. \A d \in Clicks : Unfinished(d)' <=> Unfinished(d)
  BY <1>3 DEF Unfinished
<1>5. \A j \in Jobs : job'[j] \in {"queued", "cancelled", "doomed"} => j \in ToSet(queue')
  BY <1>1, <1>2, <1>3 DEF InOrder, Line
<1>6. \A d \in Clicks : Request(d) \in ToSet(queue') => job'[Request(d)] = "queued"
  BY <1>1, <1>2, <1>3 DEF InOrder, Line
<1>7. Line'
  BY <1>1, <1>2, <1>3, <1>4, <1>5, <1>6 DEF InOrder, Line
<1>8. Order'
  BY <1>1, <1>3, <1>4 DEF InOrder, Order, TaskBegins
<1>9. \A u \in Tasks : /\ Live(u)' <=> Live(u)
                       /\ job'[u] \in {"queued", "parked"} => job[u] \in {"queued", "parked"}
  BY <1>1, <1>3 DEF Live
<1>10. TasksHeld' = TasksHeld
  BY DEF TaskBegins, TasksHeld
<1>11. {rc28, panel} \ {NoJob} \subseteq Tasks
  BY DEF SessionTypeOK
<1>12. Placed' /\ OfTheirKind'
  <2>1. UNCHANGED <<current, radio, home, rc28, panel, panelTask, listeners, stopped>>
    BY DEF TaskBegins
  <2>2. Placed'
    BY <1>9, <1>10, <1>11, <2>1 DEF InOrder, Placed
  <2> QED BY <2>1, <2>2 DEF InOrder, OfTheirKind
<1> QED BY <1>1, <1>3, <1>7, <1>8, <1>12 DEF InOrder

LEMMA TaskOverInOrder ==
    ASSUME SessionTypeOK, InOrder, NEW t \in Tasks, TaskCancelled(t) \/ TaskEnds(t)
    PROVE  /\ InOrder' /\ CleanUp(t)
           /\ UNCHANGED <<pace, want, awaited, radio, enabled, stopped>>
           /\ \A d \in Clicks : /\ Unfinished(d)' <=> Unfinished(d)
                                /\ ~Unfinished(d) => job'[Request(d)] = job[Request(d)]
           /\ \A u \in Tasks : job[u] = "done" => job'[u] = "done"
<1> USE DEF askedFor, built
<1> DEFINE q == IF TaskEnds(t) THEN queue ELSE Tail(queue)
<1>1. TaskDone(t, q) /\ CleanUp(t)
  BY DEF TaskCancelled, TaskEnds, InOrder, Order
<1>2. (q = queue /\ job[t] = "parked") \/ (Runs(t) /\ q = Tail(queue))
  BY DEF TaskCancelled, TaskEnds
<1>3. UNCHANGED <<pace, want, lists, current, radio, home, panelTask, enabled, stopped>>
  BY DEF TaskCancelled, TaskEnds
<1> HIDE DEF q
<1>4. q \in Seq(Jobs)
  <2>1. queue \in Seq(Jobs)
    BY DEF SessionTypeOK
  <2>2. Runs(t) => queue # <<>>
    BY DEF Runs
  <2>3. queue # <<>> => Tail(queue) \in Seq(Jobs)
    BY <2>1
  <2> QED BY <1>2, <2>1, <2>2, <2>3
<1>5. Finished(t, q)
  BY <1>1, <1>4, TaskDoneEffect
<1>6. /\ Line' /\ \A d \in Clicks : Unfinished(d)' <=> Unfinished(d)
      /\ \A d \in Clicks : ~Unfinished(d) => job'[Request(d)] = job[Request(d)]
  BY <1>2, <1>4, <1>5, LineFinished DEF InOrder
<1>7. awaited' = awaited /\ \A u \in Tasks : job'[u] = IF u = t THEN "done" ELSE job[u]
  BY <1>5 DEF Finished
<1>8. Order'
  BY <1>3, <1>6, <1>7 DEF InOrder, Order
<1>9. \A u \in Tasks : Live(u)' => u # t /\ Live(u)
  BY <1>7 DEF Live
<1>10. TasksHeld' = TasksHeld
  BY <1>3 DEF TasksHeld
<1>11. \A d \in {rc28', panel'} \ {NoJob} : d \in {rc28, panel} \ {NoJob} /\ d # t /\ d \in Tasks
  BY <1>1 DEF CleanUp, SessionTypeOK
<1>12. \A d \in Tasks : d # t => (Live(d)' <=> Live(d)) /\ (d \in listeners' <=> d \in listeners)
  BY <1>1, <1>7 DEF Live, CleanUp
<1>13. Placed'
  <2>1. \A u \in Tasks : Live(u)' => u \in ToSet(TasksHeld') /\ home'[u] = radio'
    BY <1>3, <1>9, <1>10 DEF InOrder, Placed
  <2>2. \A d \in {rc28', panel'} \ {NoJob} :
           Live(d)' /\ (job'[d] \in {"queued", "parked"} => d \in listeners')
    BY <1>7, <1>11, <1>12 DEF InOrder, Placed
  <2> QED BY <1>3, <2>1, <2>2 DEF InOrder, Placed
<1>14. OfTheirKind'
  <2>1. rc28' \in {rc28, NoJob} /\ panel' \in {panel, NoJob}
    BY <1>1 DEF CleanUp
  <2> QED BY <1>3, <2>1 DEF InOrder, OfTheirKind
<1> QED BY <1>1, <1>3, <1>6, <1>7, <1>8, <1>13, <1>14 DEF InOrder

\* As long as no request overtakes another, "overlap" \notin pace, every step keeps
\* the order.
LEMMA OrderKept ==
    ASSUME SessionTypeOK, InOrder, "overlap" \notin pace, [SessionNext]_sessionVars
    PROVE  InOrder'
<1>1. ASSUME NEW c \in Clicks, Click(c) \/ RunRequest(c) PROVE InOrder'
  BY <1>1, ClickInOrder, BeginInOrder, AwaitInOrder, FinishInOrder, SwitchOnInOrder,
     Rc28OffInOrder, PanelOffInOrder DEF RunRequest
<1>2. ASSUME NEW t \in Tasks, TaskBegins(t) \/ TaskCancelled(t) \/ TaskEnds(t) PROVE InOrder'
  BY <1>2, TaskBeginsInOrder, TaskOverInOrder
<1>3. CASE UNCHANGED sessionVars
  <2>1. \A t \in Tasks : Live(t)' <=> Live(t)
    BY <1>3 DEF Live, sessionVars, loop
  <2>2. TasksHeld' = TasksHeld
    BY <1>3 DEF TasksHeld, sessionVars, built
  <2>3. \A c \in Clicks : Unfinished(c)' <=> Unfinished(c)
    BY <1>3 DEF Unfinished, sessionVars, loop
  <2>4. Once(queue)' <=> Once(queue)
    BY <1>3 DEF sessionVars, loop
  <2>5. {rc28, panel} \ {NoJob} \subseteq Tasks
    BY DEF SessionTypeOK
  <2>6. Line'
    BY <1>3, <2>3, <2>4 DEF InOrder, Line, sessionVars, loop
  <2>7. Order'
    BY <1>3, <2>3 DEF InOrder, Order, sessionVars, loop, askedFor, built
  <2>8. Placed'
    BY <1>3, <2>1, <2>2, <2>5 DEF InOrder, Placed, sessionVars, loop, built, refs
  <2>9. OfTheirKind'
    BY <1>3 DEF InOrder, OfTheirKind, sessionVars, refs
  <2> QED BY <2>6, <2>7, <2>8, <2>9 DEF InOrder
<1> QED BY <1>1, <1>2, <1>3 DEF SessionNext

LEMMA PaceKept == ASSUME [SessionNext]_sessionVars PROVE pace' = pace
BY DEF SessionNext, sessionVars, askedFor, Click, RunRequest, BeginSwitch, AwaitNext,
       FinishSwitch, SwitchOn, Rc28Off, PanelOff, TaskBegins, TaskCancelled, TaskEnds

\* Where nothing fails and no request comes before a stopped driver has noticed: the
\* request that made a driver is over, a stopped driver is over when a request
\* comes, and except within a switch of radios what is enabled is there.
Settling(c) == awaited[c] # NoJob /\ want[c] \in Radios

RequestOver(t) == job[Request(t[1])] = "done"

Staying ==
    /\ \A t \in stopped : RequestOver(t)
    /\ rc28 # NoJob => RequestOver(rc28)
    /\ \A c \in Clicks : Unfinished(c) => \A t \in stopped : job[t] = "done"
    /\ radio # NoRadio /\ (\A c \in Clicks : ~Settling(c)) =>
          /\ "rc28" \in enabled => rc28 # NoJob /\ rc28 \notin stopped
          /\ "panel" \in enabled => panel # NoJob

LEMMA TaskOfRequest ==
    ASSUME NEW t \in Tasks
    PROVE  t[1] \in Clicks /\ Request(t[1]) \in Jobs /\ Request(t[1]) \notin Tasks
<1>1. t[1] \in Clicks
  BY DEF Tasks
<1> QED BY <1>1, NamesApart

\* The flags, references and requests are as before or a request has ended.
LEMMA StayingKept ==
    ASSUME SessionTypeOK, InOrder, Staying, pace = {}, [SessionNext]_sessionVars
    PROVE  Staying'
<1> USE DEF askedFor, built, refs
<1>0. stopped \subseteq Tasks /\ {rc28, panel} \subseteq Tasks \cup {NoJob}
  BY DEF SessionTypeOK
<1>1. ASSUME NEW c \in Clicks, Click(c) PROVE Staying'
  <2>1. /\ \A d \in Clicks : d # c => job'[Request(d)] = job[Request(d)]
        /\ \A t \in Tasks : job'[t] = job[t]
        /\ job[Request(c)] = "none"
    BY <1>1, NamesApart DEF Click, SessionTypeOK
  <2>2. \A t \in Tasks : RequestOver(t) => RequestOver(t)'
    BY <2>1, TaskOfRequest DEF RequestOver
  <2>3. \A t \in stopped : job[t] = "done" /\ Settled
    BY <1>1 DEF Click, MayClick
  <2>4. \A d \in Clicks : awaited[d] = NoJob
    <3>1. \A d \in Clicks : ~Unfinished(d)
      <4>1. queue = <<>> /\ sleepers = <<>>
        BY <1>1 DEF Click, MayClick, Settled
      <4>2. ToSet(queue) = {} /\ \A d \in Clicks : sleepers # <<d>>
        BY <4>1, SetOfEmpty
      <4> QED BY <4>2, NamesApart DEF InOrder, Line, Unfinished
    <3> QED BY <3>1 DEF InOrder, Order
  <2>5. \A d \in Clicks : ~Settling(d) /\ ~Settling(d)'
    BY <1>1, <2>4 DEF Settling, Click
  <2> QED BY <1>0, <1>1, <2>1, <2>2, <2>3, <2>5 DEF Staying, Click
<1>2. ASSUME NEW c \in Clicks, BeginSwitch(c) \/ AwaitNext(c) PROVE Staying'
  <2>1. Runs(Request(c)) /\ UNCHANGED <<want, stopped, rc28, panel, enabled, radio>>
    BY <1>2 DEF BeginSwitch, AwaitNext
  <2>2. \A d \in Clicks : Unfinished(d) <=> d = c
    BY <2>1, RequestRuns DEF InOrder
  <2>3. ASSUME NEW x, NEW ts \in Seq(Tasks), Parked(c, x, ts), Settling(c) => x # NoJob
        PROVE  Staying'
    <3>1. Line' /\ \A d \in Clicks : Unfinished(d)' <=> d = c
      BY <2>1, <2>3, LineParks DEF InOrder
    <3>2. awaited' = [awaited EXCEPT ![c] = x]
      BY <2>3 DEF Parked
    <3>3. \A d \in Clicks : Settling(d) => Settling(d)'
      BY <2>1, <2>3, <3>2 DEF Settling, SessionTypeOK
    <3>4. /\ \A d \in Clicks : d # c => job'[Request(d)] = job[Request(d)]
          /\ \A t \in Tasks : job[t] = "done" => job'[t] = "done"
      BY <2>3 DEF Parked
    <3>5. job[Request(c)] # "done"
      BY <2>2 DEF Unfinished
    <3>6. \A t \in Tasks : RequestOver(t) => RequestOver(t)'
      BY <3>4, <3>5, TaskOfRequest DEF RequestOver
    <3> QED BY <1>0, <2>1, <2>2, <3>1, <3>3, <3>4, <3>6 DEF Staying
  <2>4. CASE BeginSwitch(c)
    <3>1. TasksHeld \in Seq(Tasks) /\ current # NoJob
      BY <2>4, HeldTasks, ThoseOfOne DEF BeginSwitch, Undone, TasksHeld
    <3>2. Parks(c, current, TasksHeld)
      BY <2>4 DEF BeginSwitch, Teardown
    <3>3. Parked(c, current, TasksHeld)
      BY <3>1, <3>2, ParksEffect
    <3> QED BY <2>3, <3>1, <3>3
  <2>5. CASE AwaitNext(c)
    <3>1. <<>> \in Seq(Tasks)
      OBVIOUS
    <3>2. Parked(c, awaited[c], <<>>)
      BY <2>5, <3>1, ParksEffect DEF AwaitNext
    <3>3. Settling(c) => awaited[c] # NoJob
      BY DEF Settling
    <3> QED BY <2>3, <3>1, <3>2, <3>3
  <2> QED BY <1>2, <2>4, <2>5
<1>3. ASSUME NEW c \in Clicks, NEW ts \in Seq(Tasks), Ended(c, ts), Runs(Request(c)),
             UNCHANGED <<want, stopped>>,
             rc28' = rc28 \/ rc28' = <<c, "rc28">>,
             radio' # NoRadio =>
                /\ "rc28" \in enabled' => rc28' # NoJob /\ rc28' \notin stopped
                /\ "panel" \in enabled' => panel' # NoJob
      PROVE  Staying'
  <2>1. Line' /\ \A d \in Clicks : ~Unfinished(d)'
    BY <1>3, LineEnds DEF InOrder
  <2>2. /\ \A d \in Clicks : d # c => job'[Request(d)] = job[Request(d)]
        /\ job'[Request(c)] = "done"
    BY <1>3 DEF Ended
  <2>3. \A t \in Tasks : RequestOver(t) => RequestOver(t)'
    BY <2>2, TaskOfRequest DEF RequestOver
  <2>4. rc28' # NoJob => RequestOver(rc28)'
    <3>1. CASE rc28' = rc28
      BY <1>0, <2>3, <3>1 DEF Staying, RequestOver
    <3>2. CASE rc28' = <<c, "rc28">>
      BY <2>2, <3>2 DEF RequestOver
    <3> QED BY <1>3, <3>1, <3>2
  <2> QED BY <1>0, <1>3, <2>1, <2>3, <2>4 DEF Staying, RequestOver
<1>4. ASSUME NEW c \in Clicks, FinishSwitch(c) PROVE Staying'
  <2> DEFINE ts == <<<<c, "control">>>> \o NewRc28(c) \o NewPanel(c)
  <2>1. /\ ts \in Seq(Tasks) /\ Ends(c, ts) /\ Created(c, ts) /\ Runs(Request(c)) /\ want[c] \in Radios
        /\ UNCHANGED <<want, stopped, enabled>>
        /\ ToSet(ts) = {<<c, "control">>} \cup ToSet(NewRc28(c)) \cup ToSet(NewPanel(c))
    BY <1>4, NewDrivers DEF FinishSwitch
  <2> HIDE DEF ts
  <2>2. rc28 = NoJob /\ panel = NoJob
    <3>1. \A t \in Tasks : ~Live(t)
      BY <1>4, NoneAlive DEF FinishSwitch
    <3> QED BY <1>0, <3>1 DEF InOrder, Placed
  <2>3. "rc28" \in enabled' => rc28' = <<c, "rc28">>
    <3>1. "rc28" \in enabled' => ToSet(NewRc28(c)) = {<<c, "rc28">>}
      BY <2>2, SetOfOne DEF NewRc28
    <3> QED BY <2>1, <3>1 DEF Created
  <2>4. "panel" \in enabled' => panel' = <<c, "panel">>
    <3>1. "panel" \in enabled' => ToSet(NewPanel(c)) = {<<c, "panel">>}
      BY <2>2, SetOfOne DEF NewPanel
    <3> QED BY <2>1, <3>1 DEF Created
  <2>5. <<c, "rc28">> \notin stopped
    <3>1. job[Request(c)] = "queued"
      BY <2>1, RequestRuns DEF InOrder
    <3> QED BY <3>1 DEF Staying, RequestOver
  <2>6. <<c, "rc28">> # NoJob /\ <<c, "panel">> # NoJob
    BY SessionAssumption DEF Tasks, Jobs
  <2>7. rc28' = rc28 \/ rc28' = <<c, "rc28">>
    BY <2>1 DEF Created
  <2>8. Ended(c, ts)
    BY <2>1, EndsEffect
  <2> QED BY <1>3, <2>1, <2>3, <2>4, <2>5, <2>6, <2>7, <2>8
<1>5. ASSUME NEW c \in Clicks, SwitchOn(c) PROVE Staying'
  <2> DEFINE ts == IF radio = NoRadio THEN <<>>
                   ELSE IF want[c] = "rc28_on" THEN NewRc28(c) ELSE NewPanel(c)
  <2>1. Ends(c, ts) /\ Created(c, ts) /\ Runs(Request(c)) /\ UNCHANGED <<want, stopped, radio>>
    BY <1>5 DEF SwitchOn
  <2>2. ts \in Seq(Tasks)
    <3>1. <<>> \in Seq(Tasks)
      OBVIOUS
    <3> QED BY <3>1, NewDrivers
  <2>3. /\ want[c] = "rc28_on" => enabled' = enabled \cup {"rc28"}
        /\ want[c] # "rc28_on" => enabled' = enabled \cup {"panel"}
    BY <1>5 DEF SwitchOn
  <2>4. radio # NoRadio /\ want[c] = "rc28_on" /\ rc28 = NoJob => <<c, "rc28">> \in ToSet(ts)
    BY <2>3, SetOfOne DEF NewRc28
  <2>5. radio # NoRadio /\ want[c] # "rc28_on" /\ panel = NoJob => <<c, "panel">> \in ToSet(ts)
    BY <2>3, SetOfOne DEF NewPanel
  <2> HIDE DEF ts
  <2>6. \A d \in Clicks : (Unfinished(d) <=> d = c) /\ ~Settling(d)
    <3>1. \A d \in Clicks : Unfinished(d) <=> d = c
      BY <2>1, RequestRuns DEF InOrder
    <3>2. awaited[c] = NoJob
      BY <1>5, SwitchOnInOrder
    <3> QED BY <3>1, <3>2 DEF InOrder, Order, Settling
  <2>7. <<c, "rc28">> # NoJob /\ <<c, "panel">> # NoJob
    BY SessionAssumption DEF Tasks, Jobs
  <2>8. rc28 # NoJob => rc28 \notin stopped
    <3>1. \A t \in stopped : job[t] = "done"
      BY <2>6 DEF Staying
    <3>2. rc28 # NoJob => job[rc28] # "done"
      BY DEF InOrder, Placed, Live
    <3> QED BY <3>1, <3>2
  <2>9. <<c, "rc28">> \notin stopped
    <3>1. job[Request(c)] = "queued"
      BY <2>1, RequestRuns DEF InOrder
    <3> QED BY <3>1 DEF Staying, RequestOver
  <2>10. rc28' = rc28 \/ rc28' = <<c, "rc28">>
    BY <2>1 DEF Created
  <2>11. ASSUME radio' # NoRadio
         PROVE  /\ "rc28" \in enabled' => rc28' # NoJob
                /\ "panel" \in enabled' => panel' # NoJob
    <3>1. /\ rc28 # NoJob \/ <<c, "rc28">> \in ToSet(ts) => rc28' # NoJob
          /\ panel # NoJob \/ <<c, "panel">> \in ToSet(ts) => panel' # NoJob
      BY <2>1, <2>7 DEF Created
    <3>2. ("rc28" \in enabled => rc28 # NoJob) /\ ("panel" \in enabled => panel # NoJob)
      BY <2>1, <2>6, <2>11 DEF Staying
    <3>3. CASE want[c] = "rc28_on"
      BY <2>1, <2>3, <2>4, <2>11, <3>1, <3>2, <3>3
    <3>4. CASE want[c] # "rc28_on"
      BY <2>1, <2>3, <2>5, <2>11, <3>1, <3>2, <3>4
    <3> QED BY <3>3, <3>4
  <2>12. Ended(c, ts)
    BY <2>1, <2>2, EndsEffect
  <2>13. rc28' # NoJob => rc28' \notin stopped
    BY <2>8, <2>9, <2>10
  <2> QED BY <1>3, <2>1, <2>2, <2>10, <2>11, <2>12, <2>13
<1>6. ASSUME NEW c \in Clicks, Rc28Off(c) PROVE Staying'
  <2>1. /\ stopped' = stopped \cup ({rc28} \ {NoJob}) /\ enabled' = enabled \ {"rc28"}
        /\ UNCHANGED <<want, rc28, panel, radio>> /\ Runs(Request(c)) /\ Ends(c, <<>>)
    BY <1>6 DEF Rc28Off
  <2>2. \A d \in Clicks : ~Settling(d) /\ ~Unfinished(d)'
    BY <1>6, Rc28OffInOrder DEF Settling
  <2>3. \A t \in Tasks : RequestOver(t) => RequestOver(t)'
    <3>1. <<>> \in Seq(Tasks)
      OBVIOUS
    <3>2. Ended(c, <<>>)
      BY <2>1, <3>1, EndsEffect
    <3> QED BY <3>2, TaskOfRequest DEF Ended, RequestOver
  <2>4. \A t \in stopped' : RequestOver(t)'
    BY <1>0, <2>1, <2>3 DEF Staying
  <2> QED BY <1>0, <2>1, <2>2, <2>3, <2>4 DEF Staying
<1>7. ASSUME NEW c \in Clicks, PanelOff(c) PROVE Staying'
  <2>1. /\ enabled' = enabled \ {"panel"} /\ Runs(Request(c)) /\ want[c] = "panel_off"
        /\ UNCHANGED <<want, rc28, panel, radio, stopped>>
    BY <1>7 DEF PanelOff
  <2>2. \A d \in Clicks : Unfinished(d) <=> d = c
    BY <2>1, RequestRuns DEF InOrder
  <2>3. /\ \A d \in Clicks : Unfinished(d)' => d = c
        /\ \A d \in Clicks : d # c => job'[Request(d)] = job[Request(d)]
        /\ \A t \in Tasks : job[t] = "done" => job'[t] = "done"
    BY <1>7, PanelOffInOrder
  <2>4. \A d \in Clicks : ~Settling(d)
    BY <2>1, <2>2, SessionAssumption DEF InOrder, Order, Settling
  <2>5. \A t \in Tasks : RequestOver(t) => RequestOver(t)'
    <3>1. job[Request(c)] # "done"
      BY <2>2 DEF Unfinished
    <3> QED BY <2>3, <3>1, TaskOfRequest DEF RequestOver
  <2> QED BY <1>0, <2>1, <2>2, <2>3, <2>4, <2>5 DEF Staying
<1>8. ASSUME NEW t \in Tasks, TaskBegins(t) PROVE Staying'
  <2>1. UNCHANGED <<want, awaited, rc28, panel, radio, stopped, enabled>>
    BY <1>8 DEF TaskBegins
  <2>2. /\ \A d \in Clicks : job'[Request(d)] = job[Request(d)]
        /\ \A u \in Tasks : job[u] = "done" => job'[u] = "done"
    BY <1>8, TaskBeginsInOrder
  <2>3. \A u \in Tasks : RequestOver(u) => RequestOver(u)'
    BY <2>2, TaskOfRequest DEF RequestOver
  <2>4. \A d \in Clicks : (Unfinished(d)' <=> Unfinished(d)) /\ (Settling(d)' <=> Settling(d))
    BY <2>1, <2>2 DEF Unfinished, Settling
  <2> QED BY <1>0, <2>1, <2>2, <2>3, <2>4 DEF Staying
<1>9. ASSUME NEW t \in Tasks, TaskCancelled(t) \/ TaskEnds(t) PROVE Staying'
  <2>1. /\ UNCHANGED <<want, awaited, radio, stopped, enabled>> /\ CleanUp(t)
        /\ \A d \in Clicks : /\ Unfinished(d)' <=> Unfinished(d)
                             /\ ~Unfinished(d) => job'[Request(d)] = job[Request(d)]
        /\ \A u \in Tasks : job[u] = "done" => job'[u] = "done"
    BY <1>9, TaskOverInOrder
  <2>2. \A u \in Tasks : RequestOver(u) => RequestOver(u)'
    BY <2>1, TaskOfRequest DEF RequestOver, Unfinished
  <2>3. \A d \in Clicks : Settling(d)' <=> Settling(d)
    BY <2>1 DEF Settling
  <2>4. rc28' \in {rc28, NoJob} /\ (rc28 # t => rc28' = rc28) /\ (panel # t => panel' = panel)
    BY <2>1 DEF CleanUp
  <2>5. ASSUME \A d \in Clicks : ~Settling(d)
        PROVE  /\ rc28 = t /\ rc28 # NoJob => rc28 \in stopped
               /\ panel = t /\ panel # NoJob => "panel" \notin enabled
    <3>1. CASE TaskEnds(t)
      <4>1. t \in stopped /\ t[2] = "rc28"
        BY <3>1 DEF TaskEnds, InOrder, OfTheirKind
      <4> QED BY <4>1 DEF InOrder, OfTheirKind
    <3>2. CASE TaskCancelled(t)
      <4>1. job[t] = "cancelled"
        BY <3>2 DEF TaskCancelled, InOrder, Order
      <4>2. PICK c \in Clicks : awaited[c] # NoJob /\ want[c] \notin Radios /\ t = awaited[c]
        BY <2>5, <4>1 DEF Settling, InOrder, Order
      <4>3. t[2] = "panel" /\ "panel" \notin enabled
        BY <4>2 DEF InOrder, Order
      <4> QED BY <4>3 DEF InOrder, OfTheirKind
    <3> QED BY <1>9, <3>1, <3>2
  <2>6. t # NoJob
    BY SessionAssumption, NamesApart
  <2>7. \A d \in Clicks : Unfinished(d)' => \A u \in stopped' : job'[u] = "done"
    BY <1>0, <2>1 DEF Staying
  <2>8. \A u \in stopped' : RequestOver(u)'
    BY <1>0, <2>1, <2>2 DEF Staying
  <2>9. rc28' # NoJob => RequestOver(rc28)'
    BY <1>0, <2>2, <2>4 DEF Staying, RequestOver
  <2>10. ASSUME radio' # NoRadio, \A c \in Clicks : ~Settling(c)'
         PROVE  /\ "rc28" \in enabled' => rc28' # NoJob /\ rc28' \notin stopped'
                /\ "panel" \in enabled' => panel' # NoJob
    <3>1. /\ "rc28" \in enabled => rc28 # NoJob /\ rc28 \notin stopped
          /\ "panel" \in enabled => panel # NoJob
      BY <2>1, <2>3, <2>10 DEF Staying
    <3> QED BY <2>1, <2>3, <2>4, <2>5, <2>6, <2>10, <3>1
  <2> QED BY <2>7, <2>8, <2>9, <2>10 DEF Staying
<1>10. CASE UNCHANGED sessionVars
  <2>1. \A t \in Tasks : RequestOver(t)' <=> RequestOver(t)
    BY <1>10 DEF RequestOver, sessionVars, loop
  <2>2. \A d \in Clicks : (Unfinished(d)' <=> Unfinished(d)) /\ (Settling(d)' <=> Settling(d))
    BY <1>10 DEF Unfinished, Settling, sessionVars, loop
  <2> QED BY <1>0, <1>10, <2>1, <2>2 DEF Staying, sessionVars, loop
<1> QED BY <1>1, <1>2, <1>4, <1>5, <1>6, <1>7, <1>8, <1>9, <1>10 DEF SessionNext, RunRequest

SessionInv ==
    /\ SessionTypeOK
    /\ "overlap" \notin pace => InOrder
    /\ pace = {} => Staying

LEMMA SettledIsQuiet ==
    ASSUME SessionTypeOK, InOrder, Settled
    PROVE  /\ \A t \in Tasks : Live(t) => Running(t)
           /\ \A c \in Clicks : awaited[c] = NoJob
<1>1. queue = <<>> /\ sleepers = <<>>
  BY DEF Settled
<1>2. ToSet(queue) = {} /\ \A d \in Clicks : sleepers # <<d>>
  BY <1>1, SetOfEmpty
<1>3. \A j \in Jobs : job[j] \notin {"queued", "cancelled", "doomed"}
  BY <1>2 DEF InOrder, Line
<1>4. \A c \in Clicks : ~Unfinished(c)
  BY <1>2, <1>3, NamesApart DEF InOrder, Line, Unfinished
<1> QED BY <1>3, <1>4, NamesApart DEF InOrder, Order, Live, Running

\* Whatever is turned off, on or to in between, and however the event loop orders
\* the tasks, once the requests have run to their end what runs belongs to the
\* selected radio, the next tear-down reaches it, dial and panel hear the relay,
\* and what is enabled is there.
THEOREM SessionInOrderHolds == SessionSpec => []SessionInOrder
<1>1. SessionInit => SessionInv
  <2> SUFFICES ASSUME SessionInit PROVE SessionInv
    OBVIOUS
  <2>1. /\ queue = <<>> /\ sleepers = <<>> /\ \A j \in Jobs : job[j] = "none"
        /\ \A c \in Clicks : awaited[c] = NoJob
        /\ rc28 = NoJob /\ panel = NoJob /\ panelTask = NoJob /\ stopped = {}
        /\ current = NoJob /\ radio = NoRadio
    BY DEF SessionInit
  <2>2. \A c \in Clicks : ~Unfinished(c) /\ job[Request(c)] = "none"
    BY <2>1, NamesApart DEF Unfinished
  <2>3. \A t \in Tasks : job[t] = "none"
    BY <2>1, NamesApart
  <2>4. ToSet(queue) = {} /\ Once(queue)
    <3>1. Len(<<>>) = 0
      OBVIOUS
    <3> QED BY <2>1, <3>1, SetOfEmpty DEF Once
  <2>5. Line
    BY <2>1, <2>2, <2>4 DEF Line
  <2>6. Order
    BY <2>1, <2>2, <2>3 DEF Order
  <2>7. Placed /\ OfTheirKind
    BY <2>1, <2>3 DEF Placed, OfTheirKind, Live
  <2>8. Staying
    BY <2>1, <2>2 DEF Staying
  <2>9. SessionTypeOK
    BY SessionInitTyped
  <2> QED BY <2>5, <2>6, <2>7, <2>8, <2>9 DEF SessionInv, InOrder
<1>2. SessionInv /\ [SessionNext]_sessionVars => SessionInv'
  BY SessionTypeKept, OrderKept, StayingKept, PaceKept DEF SessionInv
<1>3. SessionInv => SessionInOrder
  <2> SUFFICES ASSUME SessionInv, Settled, "overlap" \notin pace
               PROVE  /\ Follows(rc28) /\ Follows(panel)
                      /\ \A t \in Tasks : Running(t) => t \in ToSet(TasksHeld) /\ home[t] = radio
                      /\ pace = {} /\ radio # NoRadio =>
                            /\ "rc28" \in enabled => rc28 # NoJob
                            /\ "panel" \in enabled => panel # NoJob
    BY DEF SessionInOrder, DriversFollowRadio, NothingOrphaned, EnabledRuns
  <2>1. SessionTypeOK /\ InOrder /\ (pace = {} => Staying)
    BY DEF SessionInv
  <2>2. (\A t \in Tasks : Live(t) => Running(t)) /\ \A c \in Clicks : ~Settling(c)
    BY <2>1, SettledIsQuiet DEF Settling
  <2>3. \A t \in Tasks : Running(t) => t \in ToSet(TasksHeld) /\ home[t] = radio
    BY <2>1 DEF InOrder, Placed, Live, Running
  <2>4. {rc28, panel} \subseteq Tasks \cup {NoJob}
    BY <2>1 DEF SessionTypeOK
  <2>5. ASSUME NEW d \in {rc28, panel} PROVE Follows(d)
    BY <2>1, <2>2, <2>3, <2>4 DEF Follows, InOrder, Placed, Running
  <2> QED BY <2>1, <2>2, <2>3, <2>5 DEF Staying
<1> QED BY <1>1, <1>2, <1>3, PTL DEF SessionSpec
=============================================================================
