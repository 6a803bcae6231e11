--------------------------- MODULE ChannelsProofs ---------------------------
(***************************************************************************)
(* Proofs about the components that keep up a connection or follow a       *)
(* device: external PTT, antenna switch, CAT path, audio link, amplifier   *)
(* telemetry, plug, radio panel and device windows, and about all of them  *)
(* as MCChannels has them, for any values of their constants.              *)
(***************************************************************************)
EXTENDS MCChannels, SequenceLemmas

-----------------------------------------------------------------------------
(* Sequences of messages *)

\* What is left when the first n messages have been read.
LEMMA RestOfMessages ==
    ASSUME NEW S, NEW q \in Seq(S), NEW n \in DOMAIN q
    PROVE  /\ q[n] \in S
           /\ SubSeq(q, n + 1, Len(q)) \in Seq(S)
           /\ SubSeq(q, n + 1, Len(q)) = <<>> => n = Len(q)
           /\ SubSeq(q, n + 1, Len(q)) # <<>> =>
                SubSeq(q, n + 1, Len(q))[Len(SubSeq(q, n + 1, Len(q)))] = q[Len(q)]
<1>. DEFINE r == SubSeq(q, n + 1, Len(q))
<1>1. Len(q) \in Nat /\ n \in 1..Len(q) /\ \A i \in 1..Len(q) : q[i] \in S
  OBVIOUS
<1>2. /\ r \in Seq(S)
      /\ Len(r) = IF n + 1 <= Len(q) THEN Len(q) - (n + 1) + 1 ELSE 0
      /\ \A i \in 1..(Len(q) - (n + 1) + 1) : r[i] = q[(n + 1) + i - 1]
  BY <1>1, SubSeqProperties
<1>3. r = <<>> <=> Len(r) = 0
  BY <1>2, EmptySeq
<1>4. r = <<>> => n = Len(q)
  BY <1>1, <1>2, <1>3
<1>5. ASSUME r # <<>>
      PROVE  r[Len(r)] = q[Len(q)]
  <2>1. n + 1 <= Len(q) /\ Len(r) = Len(q) - n
    BY <1>1, <1>2, <1>3, <1>5
  <2>2. Len(q) - n \in 1..(Len(q) - (n + 1) + 1) /\ (n + 1) + (Len(q) - n) - 1 = Len(q)
    <3>1. \A l \in Nat : \A k \in 1..l : k + 1 <= l =>
             l - k \in 1..(l - (k + 1) + 1) /\ (k + 1) + (l - k) - 1 = l
      OBVIOUS
    <3>. QED  BY <1>1, <2>1, <3>1, Zenon
  <2>. QED  BY <1>2, <2>1, <2>2
<1>. QED  BY <1>1, <1>2, <1>4, <1>5

LEMMA StartOfMessages ==
    ASSUME NEW S, NEW q \in Seq(S), NEW n \in 0..Len(q)
    PROVE  SubSeq(q, 1, n) \in Seq(S)
<1>1. \A i \in 1..n : q[i] \in S
  OBVIOUS
<1>. QED  BY <1>1, SubSeqProperties

-----------------------------------------------------------------------------
(* Types *)

\* A handle that is set stands for a timer that is armed, so what calls the
\* release off does not call off one that is not there.
Booked ==
    /\ timers \in Nat
    /\ handle => timers > 0
    /\ ~hasTail => timers = 0

Stationed ==
    /\ method \in Methods /\ hasTail \in Tails
    /\ want \in [Stations -> BOOLEAN]
    /\ seen \in [Stations -> {<<>>, <<TRUE>>, <<FALSE>>}]
    /\ link \in [Stations -> BOOLEAN]
    /\ chan \in [Stations -> Seq(BOOLEAN)]
    /\ {keyed, handle, intact} \subseteq BOOLEAN

LEMMA BookedStep == Booked /\ handle \in BOOLEAN /\ [Next]_vars => Booked'
<1> SUFFICES ASSUME Booked, handle \in BOOLEAN, [Next]_vars
             PROVE  Booked'
  OBVIOUS
<1>. USE DEF Booked, config, server, station, Consume
<1>1. ASSUME NEW s \in Stations, Toggle(s) \/ Poll(s) \/ LookAgain(s)
      PROVE  Booked'
  BY <1>1 DEF Toggle, Poll, LookAgain
<1>2. ASSUME NEW s \in Stations, Drop(s) \/ Reconnect(s)
      PROVE  Booked'
  BY <1>2 DEF Drop, Reconnect
<1>3. ASSUME NEW s \in Stations, LineReport(s)
      PROVE  Booked'
  <2>1. hasTail' = hasTail /\ \E on : OnReport(on)
    BY <1>3 DEF LineReport
  <2>2. PICK on : OnReport(on)
    BY <2>1
  <2>. QED  BY <2>1, <2>2, SMTT(30) DEF OnReport
<1>4. ASSUME NEW s \in Stations, CatFrame(s)
      PROVE  Booked'
  <2>1. hasTail' = hasTail /\ \E on : OnFrame(on)
    BY <1>4 DEF CatFrame
  <2>2. PICK on : OnFrame(on)
    BY <2>1
  <2>. QED  BY <2>1, <2>2, SMTT(30) DEF OnFrame
<1>5. ASSUME NEW s \in Stations, CatChunk(s)
      PROVE  Booked'
  BY <1>5 DEF CatChunk
<1>6. CASE CatOther \/ TailFires
  BY <1>6 DEF CatOther, TailFires
<1>7. CASE UNCHANGED vars
  BY <1>7 DEF vars
<1>. QED  BY <1>1, <1>2, <1>3, <1>4, <1>5, <1>6, <1>7 DEF Next, Receive

LEMMA StationedStep == Stationed /\ [Next]_vars => Stationed'
<1> SUFFICES ASSUME Stationed, [Next]_vars
             PROVE  Stationed'
  OBVIOUS
<1>. USE DEF Stationed, config, server, station
<1>0. ASSUME NEW s \in Stations, NEW on \in BOOLEAN, Send(s, on)
      PROVE  chan' \in [Stations -> Seq(BOOLEAN)]
  <2>1. Append(chan[s], on) \in Seq(BOOLEAN)
    BY LastOfAppend
  <2>. QED  BY <1>0, <2>1 DEF Send
<1>1. ASSUME NEW s \in Stations, Toggle(s)
      PROVE  Stationed'
  <2>1. chan' \in [Stations -> Seq(BOOLEAN)]
    BY <1>0, <1>1 DEF Toggle
  <2>. QED  BY <1>1, <2>1 DEF Toggle
<1>2. ASSUME NEW s \in Stations, Poll(s)
      PROVE  Stationed'
  <2>1. want[s] \in BOOLEAN /\ <<want[s]>> \in {<<>>, <<TRUE>>, <<FALSE>>}
    OBVIOUS
  <2>2. chan' \in [Stations -> Seq(BOOLEAN)] /\ seen' \in [Stations -> {<<>>, <<TRUE>>, <<FALSE>>}]
    BY <1>0, <1>2, <2>1 DEF Poll
  <2>. QED  BY <1>2, <2>2 DEF Poll
<1>3. ASSUME NEW s \in Stations, LookAgain(s) \/ Reconnect(s)
      PROVE  Stationed'
  BY <1>3 DEF LookAgain, Reconnect
<1>4. ASSUME NEW s \in Stations, Drop(s)
      PROVE  Stationed'
  <2>1. PICK n \in 0..Len(chan[s]) : chan' = [chan EXCEPT ![s] = SubSeq(@, 1, n)]
    BY <1>4 DEF Drop
  <2>2. SubSeq(chan[s], 1, n) \in Seq(BOOLEAN)
    BY StartOfMessages
  <2>3. chan' \in [Stations -> Seq(BOOLEAN)]
    BY <2>1, <2>2
  <2>. QED  BY <1>4, <2>3 DEF Drop
<1>5. ASSUME NEW s \in Stations, NEW n \in DOMAIN chan[s], Consume(s, n)
      PROVE  /\ UNCHANGED <<want, seen, link, method, hasTail, intact>>
             /\ chan' \in [Stations -> Seq(BOOLEAN)]
             /\ chan[s][n] \in BOOLEAN
  BY <1>5, RestOfMessages DEF Consume
<1>6. ASSUME NEW s \in Stations, chan[s] # <<>>
      PROVE  1 \in DOMAIN chan[s] /\ Head(chan[s]) = chan[s][1]
  BY <1>6
<1>7. ASSUME NEW s \in Stations, LineReport(s)
      PROVE  Stationed'
  BY <1>5, <1>6, <1>7 DEF LineReport, OnReport
<1>8. ASSUME NEW s \in Stations, CatFrame(s)
      PROVE  Stationed'
  BY <1>5, <1>6, <1>8 DEF CatFrame, OnFrame
<1>9. ASSUME NEW s \in Stations, CatChunk(s)
      PROVE  Stationed'
  BY <1>5, <1>9 DEF CatChunk
<1>10. CASE CatOther \/ TailFires
  BY <1>10 DEF CatOther, TailFires
<1>11. CASE UNCHANGED vars
  BY <1>11 DEF vars
<1>. QED  BY <1>1, <1>2, <1>3, <1>4, <1>7, <1>8, <1>9, <1>10, <1>11 DEF Next, Receive

LEMMA InitTyped == Init => Stationed /\ Booked
<1> SUFFICES ASSUME Init PROVE Stationed /\ Booked
  OBVIOUS
<1>1. <<>> \in Seq(BOOLEAN)
  BY EmptySeq
<1>2. chan \in [Stations -> Seq(BOOLEAN)] /\ seen \in [Stations -> {<<>>, <<TRUE>>, <<FALSE>>}]
  BY <1>1 DEF Init
<1>. QED  BY <1>2 DEF Init, Stationed, Booked

\* Every variable keeps its type; in particular no timer is called off that is
\* not armed.
THEOREM ExternalTypeCorrect == Spec => []TypeOK
<1>2. Stationed /\ Booked => TypeOK /\ handle \in BOOLEAN
  BY DEF Stationed, Booked, TypeOK
<1>. QED  BY <1>2, InitTyped, StationedStep, BookedStep, PTL DEF Spec

-----------------------------------------------------------------------------
(* What the programs asked for last *)

StationsBooked == Stationed /\ Booked

\* Of a station that is not settled anything may still come; one that is has
\* said v last.
Says(s, v) ==
    \/ chan[s] # <<>>
    \/ IF method = "line" THEN seen[s] # <<~v>> ELSE want[s] = v

\* What is under way from a station ends with what its program asked for last
\* (CI-V), or with what its relay has reported last (line).
EndsWithLatest ==
    intact => \A s \in Stations :
        /\ link[s]
        /\ chan[s] # <<>> =>
             IF method = "line" THEN seen[s] \in {<<>>, <<chan[s][Len(chan[s])]>>}
                                ELSE want[s] = chan[s][Len(chan[s])]

\* A radio that is on is on for somebody, or a release is armed; one that is off
\* although no release is ever put off has been told so.
OnForSomebody == keyed => timers > 0 \/ \E s \in Stations : Says(s, TRUE)
OffForSomebody == ~keyed /\ ~hasTail => \A s \in Stations : \E t \in Stations : Says(t, FALSE)

Heard == EndsWithLatest /\ (intact => OnForSomebody /\ OffForSomebody)

LEMMA Messages ==
    ASSUME StationsBooked, NEW s \in Stations
    PROVE  /\ chan[s] \in Seq(BOOLEAN)
           /\ chan[s] # <<>> =>
                /\ 1 \in DOMAIN chan[s] /\ Head(chan[s]) = chan[s][1]
                /\ chan[s][Len(chan[s])] \in BOOLEAN
  BY DEF StationsBooked, Stationed

\* After n messages of s have been read the last of them is what s says, if
\* nothing follows.
LEMMA Reading ==
    ASSUME StationsBooked, EndsWithLatest, intact,
           NEW s \in Stations, NEW n \in DOMAIN chan[s], Consume(s, n)
    PROVE  /\ EndsWithLatest'
           /\ \A t \in Stations \ {s}, v \in BOOLEAN : Says(t, v)' <=> Says(t, v)
           /\ \A v \in BOOLEAN : chan[s][n] = v => Says(s, v)'
           /\ intact' /\ method' = method /\ hasTail' = hasTail
<1>1. /\ UNCHANGED <<want, seen, link, method, hasTail, intact>>
      /\ chan' = [chan EXCEPT ![s] = SubSeq(chan[s], n + 1, Len(chan[s]))]
  BY DEF Consume, config
<1>2. chan[s] \in Seq(BOOLEAN) /\ chan[s] # <<>>
  BY Messages
<1>3. /\ chan'[s] = <<>> => n = Len(chan[s])
      /\ chan'[s] # <<>> => chan'[s][Len(chan'[s])] = chan[s][Len(chan[s])]
      /\ chan[s][n] \in BOOLEAN
      /\ \A t \in Stations \ {s} : chan'[t] = chan[t]
  <2>. DEFINE r == SubSeq(chan[s], n + 1, Len(chan[s]))
  <2>1. chan'[s] = r /\ \A t \in Stations \ {s} : chan'[t] = chan[t]
    BY <1>1 DEF StationsBooked, Stationed
  <2>2. /\ r = <<>> => n = Len(chan[s])
        /\ r # <<>> => r[Len(r)] = chan[s][Len(chan[s])]
        /\ chan[s][n] \in BOOLEAN
    BY <1>2, RestOfMessages
  <2>. QED  BY <2>1, <2>2
<1>4. EndsWithLatest'
  <2> SUFFICES ASSUME NEW t \in Stations
               PROVE  /\ link'[t]
                      /\ chan'[t] # <<>> =>
                           IF method' = "line"
                           THEN seen'[t] \in {<<>>, <<chan'[t][Len(chan'[t])]>>}
                           ELSE want'[t] = chan'[t][Len(chan'[t])]
    BY DEF EndsWithLatest
  <2>1. CASE t = s
    BY <1>1, <1>2, <1>3, <2>1 DEF EndsWithLatest
  <2>2. CASE t # s
    BY <1>1, <1>3, <2>2 DEF EndsWithLatest
  <2>. QED  BY <2>1, <2>2
<1>5. \A t \in Stations \ {s}, v \in BOOLEAN : Says(t, v)' <=> Says(t, v)
  BY <1>1, <1>3 DEF Says
<1>6. ASSUME NEW v \in BOOLEAN, chan[s][n] = v, chan'[s] = <<>>
      PROVE  IF method = "line" THEN seen[s] # <<~v>> ELSE want[s] = v
  <2>1. chan[s][Len(chan[s])] = v
    BY <1>3, <1>6
  <2>2. IF method = "line" THEN seen[s] \in {<<>>, <<v>>} ELSE want[s] = v
    BY <1>2, <2>1 DEF EndsWithLatest
  <2>3. <<v>> # <<~v>> /\ <<>> # <<~v>>
    BY <1>6
  <2>. QED  BY <2>2, <2>3
<1>7. \A v \in BOOLEAN : chan[s][n] = v => Says(s, v)'
  BY <1>1, <1>6 DEF Says
<1>. QED  BY <1>1, <1>4, <1>5, <1>7

\* A read leaves the radio as it told it, or with a release armed.
LEMMA AfterReading ==
    ASSUME StationsBooked, Heard, intact,
           NEW s \in Stations, NEW n \in DOMAIN chan[s], Consume(s, n),
           keyed' => timers' > 0 \/ chan[s][n] = TRUE,
           ~keyed' /\ ~hasTail => chan[s][n] = FALSE
    PROVE  Heard'
<1>1. EndsWithLatest' /\ hasTail' = hasTail /\ \A v \in BOOLEAN : chan[s][n] = v => Says(s, v)'
  BY Reading DEF Heard
<1>2. OnForSomebody'
  BY <1>1 DEF OnForSomebody
<1>3. OffForSomebody'
  BY <1>1 DEF OffForSomebody
<1>. QED  BY <1>1, <1>2, <1>3 DEF Heard

\* So does what a station sends, where it is the latest.
LEMMA AfterSending ==
    ASSUME StationsBooked, Heard, intact, intact',
           NEW s \in Stations, NEW on \in BOOLEAN, Send(s, on),
           IF method = "line" THEN seen'[s] = <<on>> ELSE want'[s] = on,
           \A t \in Stations \ {s} : seen'[t] = seen[t] /\ want'[t] = want[t],
           UNCHANGED <<method, hasTail, link, keyed, timers>>
    PROVE  Heard'
<1>1. link[s] /\ chan[s] \in Seq(BOOLEAN)
  BY Messages DEF Heard, EndsWithLatest
<1>2. /\ chan'[s] = Append(chan[s], on)
      /\ \A t \in Stations \ {s} : chan'[t] = chan[t]
  BY <1>1 DEF Send, StationsBooked, Stationed
<1>3. chan'[s] # <<>> /\ chan'[s][Len(chan'[s])] = on
  BY <1>1, <1>2, LastOfAppend
<1>4. EndsWithLatest'
  <2> SUFFICES ASSUME NEW t \in Stations
               PROVE  /\ link'[t]
                      /\ chan'[t] # <<>> =>
                           IF method' = "line"
                           THEN seen'[t] \in {<<>>, <<chan'[t][Len(chan'[t])]>>}
                           ELSE want'[t] = chan'[t][Len(chan'[t])]
    BY DEF EndsWithLatest
  <2>1. CASE t = s
    BY <1>1, <1>3, <2>1
  <2>2. CASE t # s
    BY <1>2, <2>2 DEF Heard, EndsWithLatest
  <2>. QED  BY <2>1, <2>2
<1>5. \A v \in BOOLEAN : Says(s, v)'
  BY <1>3 DEF Says
<1>. QED  BY <1>4, <1>5 DEF Heard, OnForSomebody, OffForSomebody

LEMMA HeardStep == StationsBooked /\ Heard /\ [Next]_vars => Heard'
<1> SUFFICES ASSUME StationsBooked, Heard, [Next]_vars, intact'
             PROVE  Heard'
  BY DEF Heard, EndsWithLatest
<1>0. intact /\ \A s \in Stations : link[s]
  BY DEF Heard, EndsWithLatest, Next, Receive, vars, config, station, server, Consume,
         Toggle, Poll, LookAgain, Drop, Reconnect, LineReport, CatFrame, CatChunk,
         CatOther, TailFires
<1>1. ASSUME NEW s \in Stations, Toggle(s)
      PROVE  Heard'
  <2>1. /\ UNCHANGED <<seen, link, method, hasTail, keyed, timers>>
        /\ want[s] \in BOOLEAN
        /\ want'[s] = ~want[s] /\ \A t \in Stations \ {s} : want'[t] = want[t]
    BY <1>1 DEF Toggle, config, server, StationsBooked, Stationed
  <2>2. CASE method = "line"
    <3>1. chan' = chan
      BY <1>1, <2>2 DEF Toggle
    <3>2. EndsWithLatest'
      BY <1>0, <2>1, <2>2, <3>1 DEF Heard, EndsWithLatest
    <3>3. \A t \in Stations, v \in BOOLEAN : Says(t, v)' <=> Says(t, v)
      BY <2>1, <2>2, <3>1 DEF Says
    <3>. QED  BY <1>0, <2>1, <3>2, <3>3 DEF Heard, OnForSomebody, OffForSomebody
  <2>3. CASE method # "line"
    <3>1. Send(s, ~want[s])
      BY <1>1, <2>3 DEF Toggle
    <3>. QED  BY <1>0, <2>1, <2>3, <3>1, AfterSending
  <2>. QED  BY <2>2, <2>3
<1>2. ASSUME NEW s \in Stations, Poll(s)
      PROVE  Heard'
  <2>1. /\ UNCHANGED <<want, link, method, hasTail, keyed, timers>>
        /\ Send(s, want[s]) /\ want[s] \in BOOLEAN /\ method = "line"
        /\ seen'[s] = <<want[s]>> /\ \A t \in Stations \ {s} : seen'[t] = seen[t]
    BY <1>2 DEF Poll, config, server, StationsBooked, Stationed
  <2>. QED  BY <1>0, <2>1, AfterSending
<1>3. ASSUME NEW s \in Stations, LookAgain(s)
      PROVE  Heard'
  <2>1. /\ UNCHANGED <<want, chan, link, method, hasTail, keyed, timers>>
        /\ method = "line"
        /\ seen'[s] = <<>> /\ \A t \in Stations \ {s} : seen'[t] = seen[t]
    BY <1>3 DEF LookAgain, config, server, StationsBooked, Stationed
  <2>2. EndsWithLatest'
    BY <1>0, <2>1 DEF Heard, EndsWithLatest
  <2>3. \A v \in BOOLEAN : <<>> # <<~v>>
    OBVIOUS
  <2>4. /\ \A v \in BOOLEAN : Says(s, v)'
        /\ \A t \in Stations \ {s}, v \in BOOLEAN : Says(t, v)' <=> Says(t, v)
    BY <2>1, <2>3 DEF Says
  <2>. QED  BY <1>0, <2>1, <2>2, <2>4 DEF Heard, OnForSomebody, OffForSomebody
<1>4. ASSUME NEW s \in Stations, Drop(s) \/ Reconnect(s)
      PROVE  Heard'
  BY <1>0, <1>4 DEF Drop, Reconnect
<1>5. ASSUME NEW s \in Stations, LineReport(s)
      PROVE  Heard'
  <2>1. 1 \in DOMAIN chan[s] /\ Head(chan[s]) = chan[s][1] /\ Consume(s, 1)
    BY <1>5, Messages DEF LineReport
  <2>2. /\ keyed' => timers' > 0 \/ chan[s][1] = TRUE
        /\ ~keyed' /\ ~hasTail => chan[s][1] = FALSE
    <3>1. OnReport(chan[s][1]) /\ chan[s][1] \in BOOLEAN
      BY <1>5, <2>1, RestOfMessages, Messages DEF LineReport
    <3>. QED  BY <3>1 DEF OnReport, StationsBooked, Booked, Stationed
  <2>. QED  BY <1>0, <2>1, <2>2, AfterReading
<1>6. ASSUME NEW s \in Stations, CatFrame(s)
      PROVE  Heard'
  <2>1. 1 \in DOMAIN chan[s] /\ Head(chan[s]) = chan[s][1] /\ Consume(s, 1)
    BY <1>6, Messages DEF CatFrame
  <2>2. /\ keyed' => timers' > 0 \/ chan[s][1] = TRUE
        /\ ~keyed' /\ ~hasTail => chan[s][1] = FALSE
    <3>1. OnFrame(chan[s][1]) /\ chan[s][1] \in BOOLEAN
      BY <1>6, <2>1, RestOfMessages, Messages DEF CatFrame
    <3>. QED  BY <3>1 DEF OnFrame, StationsBooked, Booked, Stationed
  <2>. QED  BY <1>0, <2>1, <2>2, AfterReading
<1>7. ASSUME NEW s \in Stations, CatChunk(s)
      PROVE  Heard'
  <2>1. PICK n \in DOMAIN chan[s] : keyed' = chan[s][n] /\ Consume(s, n)
    BY <1>7 DEF CatChunk
  <2>2. chan[s][n] \in BOOLEAN
    BY Messages, RestOfMessages
  <2>. QED  BY <1>0, <2>1, <2>2, AfterReading
<1>8. ASSUME UNCHANGED <<want, seen, chan, link, method, hasTail, intact>>
      PROVE  /\ EndsWithLatest'
             /\ \A t \in Stations, v \in BOOLEAN : Says(t, v)' <=> Says(t, v)
  BY <1>8 DEF Heard, EndsWithLatest, Says
<1>9. CASE CatOther
  <2>1. UNCHANGED <<want, seen, chan, link, method, hasTail, intact, keyed, timers>>
    BY <1>9 DEF CatOther, config, station
  <2>. QED  BY <1>0, <1>8, <2>1 DEF Heard, OnForSomebody, OffForSomebody
<1>10. CASE TailFires
  <2>1. /\ UNCHANGED <<want, seen, chan, link, method, hasTail, intact>>
        /\ keyed' = FALSE
    BY <1>10 DEF TailFires, config, station
  <2>2. hasTail
    BY <1>10 DEF TailFires, StationsBooked, Booked
  <2>. QED  BY <1>8, <2>1, <2>2 DEF Heard, OnForSomebody, OffForSomebody
<1>11. CASE UNCHANGED vars
  <2>1. UNCHANGED <<want, seen, chan, link, method, hasTail, intact, keyed, timers>>
    BY <1>11 DEF vars, config, station, server
  <2>. QED  BY <1>0, <1>8, <2>1 DEF Heard, OnForSomebody, OffForSomebody
<1>. QED  BY <1>1, <1>2, <1>3, <1>4, <1>5, <1>6, <1>7, <1>9, <1>10, <1>11
          DEF Next, Receive

LEMMA HeardAlways == Spec => [](StationsBooked /\ Heard)
<1>1. Init => StationsBooked /\ Heard
  <2> SUFFICES ASSUME Init PROVE StationsBooked /\ Heard
    OBVIOUS
  <2>1. StationsBooked
    BY InitTyped DEF StationsBooked
  <2>2. \A v \in BOOLEAN : <<>> # <<~v>>
    OBVIOUS
  <2>3. \A s \in Stations : Says(s, FALSE)
    BY <2>2 DEF Init, Says
  <2>. QED  BY <2>1, <2>3 DEF Init, Heard, EndsWithLatest, OnForSomebody, OffForSomebody
<1>2. StationsBooked /\ [Next]_vars => StationsBooked'
  BY StationedStep, BookedStep DEF StationsBooked, Stationed
<1>. QED  BY <1>1, <1>2, HeardStep, PTL DEF Spec

\* Once things have settled, a radio that no program keys is not left
\* transmitting, however handle and timers have been confused.
THEOREM NeverLeftKeyed == Spec => []NotLeftKeyed
<1>1. ASSUME StationsBooked, Heard, Settled, keyed
      PROVE  \E s \in Stations : want[s]
  <2>0. ~(timers > 0)
    BY <1>1 DEF Settled
  <2>1. PICK s \in Stations : Says(s, TRUE)
    BY <1>1, <2>0, Zenon DEF Heard, OnForSomebody, Settled
  <2>2. CASE method = "line"
    <3>1. seen[s] = <<want[s]>> /\ seen[s] # <<FALSE>> /\ want[s] \in BOOLEAN
      BY <1>1, <2>1, <2>2 DEF Settled, Says, StationsBooked, Stationed
    <3>. QED  BY <3>1
  <2>3. CASE method # "line"
    BY <1>1, <2>1, <2>3 DEF Settled, Says
  <2>. QED  BY <2>2, <2>3
<1>2. StationsBooked /\ Heard => NotLeftKeyed
  BY <1>1 DEF NotLeftKeyed
<1>. QED  BY <1>2, HeardAlways, PTL

\* Where no release is put off, the radio does what the programs asked for last,
\* in both directions.
THEOREM AlwaysFollowed ==
    ASSUME Stations # {}
    PROVE  Spec => []FollowedWithoutTail
<1>1. ASSUME StationsBooked, Heard, Settled, ~hasTail, \A s \in Stations : want[s]
      PROVE  keyed
  <2> SUFFICES ASSUME ~keyed PROVE FALSE
    BY <1>1 DEF StationsBooked, Stationed
  <2>1. PICK s \in Stations : Says(s, FALSE)
    BY <1>1 DEF Heard, OffForSomebody, Settled
  <2>2. CASE method = "line"
    <3>1. seen[s] = <<want[s]>> /\ seen[s] # <<TRUE>> /\ want[s] = TRUE
      BY <1>1, <2>1, <2>2 DEF Settled, Says, StationsBooked, Stationed
    <3>. QED  BY <3>1
  <2>3. CASE method # "line"
    BY <1>1, <2>1, <2>3 DEF Settled, Says
  <2>. QED  BY <2>2, <2>3
<1>2. StationsBooked /\ Heard /\ NotLeftKeyed => FollowedWithoutTail
  BY <1>1 DEF NotLeftKeyed, FollowedWithoutTail, KeyedFollowsPrograms
<1>. QED  BY <1>2, HeardAlways, NeverLeftKeyed, PTL

-----------------------------------------------------------------------------
(* The port shown *)

\* The last reply on the line, or the port shown where there is none.
Newest == IF toServer # <<>> THEN toServer[Len(toServer)] ELSE shown

\* Unless the switch was turned since, its latest reply carries the selected
\* port to the server: what comes before it on the line does not matter, and a
\* port shown optimistically stays only while its own command is to be answered.
LatestWins ==
    ~turned /\ (toServer # <<>> \/ toSwitch = <<>>) => Newest = selected

SwitchInv ==
    /\ SwitchTypeOK
    /\ chunks = "whole" => ~prompt /\ LatestWins

\* Every variable keeps its type.
THEOREM SwitchTypeCorrect == SwitchSpec => []SwitchTypeOK
<1>0. MaxTurns \in Nat
  BY SwitchAssumption
<1>1. SwitchInit => SwitchTypeOK
  <2> SUFFICES ASSUME SwitchInit PROVE SwitchTypeOK
    OBVIOUS
  <2>1. toSwitch \in Seq(Ports \cup {Query}) /\ toServer \in Seq(Ports)
    <3>1. \A S : \A e \in S : <<>> \in Seq(S) /\ <<e>> \in Seq(S)
      OBVIOUS
    <3>. QED  BY <3>1 DEF SwitchInit
  <2>2. turns \in 0..MaxTurns /\ shown \in Ports \cup {Unknown}
    BY <1>0 DEF SwitchInit
  <2>. QED  BY <2>1, <2>2 DEF SwitchInit, SwitchTypeOK
<1>2. SwitchTypeOK /\ [SwitchNext]_switchVars => SwitchTypeOK'
  <2> SUFFICES ASSUME SwitchTypeOK, [SwitchNext]_switchVars
               PROVE  SwitchTypeOK'
    OBVIOUS
  <2>. USE DEF SwitchTypeOK
  <2>1. ASSUME NEW p \in Ports, SelectPort(p)
        PROVE  SwitchTypeOK'
    BY <2>1 DEF SelectPort
  <2>2. CASE QueryPort
    BY <2>2 DEF QueryPort
  <2>3. CASE SwitchAnswers
    <3>2. /\ Head(toSwitch) \in Ports \cup {Query}
          /\ Tail(toSwitch) \in Seq(Ports \cup {Query})
      BY <2>3, RestOfSequence DEF SwitchAnswers
    <3>3. selected' \in Ports
      BY <2>3, <3>2 DEF SwitchAnswers
    <3>4. toServer' \in Seq(Ports)
      BY <2>3, <3>3 DEF SwitchAnswers
    <3>5. UNCHANGED <<chunks, shown, prompt, turns>> /\ turned' = FALSE
      BY <2>3 DEF SwitchAnswers
    <3>6. toSwitch' \in Seq(Ports \cup {Query})
      BY <2>3, <3>2 DEF SwitchAnswers
    <3>. QED  BY <3>3, <3>4, <3>5, <3>6
  <2>4. CASE ReplyArrives
    <3>1. toServer' \in Seq(Ports) /\ Head(toServer) \in Ports
      BY <2>4, RestOfSequence DEF ReplyArrives
    <3>2. shown' \in Ports \cup {Unknown} /\ prompt' \in BOOLEAN
      BY <2>4, <3>1 DEF ReplyArrives
    <3>3. UNCHANGED <<chunks, selected, toSwitch, turned, turns>>
      BY <2>4 DEF ReplyArrives
    <3>. QED  BY <3>1, <3>2, <3>3
  <2>5. CASE TurnedByHand
    BY <1>0, <2>5 DEF TurnedByHand
  <2>6. CASE UNCHANGED switchVars
    BY <2>6 DEF switchVars
  <2>. QED  BY <2>1, <2>2, <2>3, <2>4, <2>5, <2>6 DEF SwitchNext
<1>. QED  BY <1>1, <1>2, PTL DEF SwitchSpec

LEMMA SwitchInvStep ==
    SwitchTypeOK /\ SwitchTypeOK' /\ SwitchInv /\ [SwitchNext]_switchVars => SwitchInv'
<1> SUFFICES ASSUME SwitchTypeOK, SwitchTypeOK', SwitchInv, [SwitchNext]_switchVars,
                    chunks' = "whole"
             PROVE  ~prompt' /\ LatestWins'
  BY DEF SwitchInv
<1>0. chunks = "whole" /\ ~prompt /\ LatestWins
  BY DEF SwitchInv, SwitchNext, SelectPort, QueryPort, SwitchAnswers, ReplyArrives,
         TurnedByHand, switchVars
<1>. USE DEF SwitchTypeOK, LatestWins, Newest
<1>1. ASSUME NEW p \in Ports, SelectPort(p)
      PROVE  ~prompt' /\ LatestWins'
  BY <1>0, <1>1 DEF SelectPort, Ports
<1>2. CASE QueryPort
  <2>1. toSwitch' # <<>> /\ UNCHANGED <<toServer, shown, prompt, selected, turned>>
    BY <1>2 DEF QueryPort
  <2>. QED  BY <1>0, <2>1
<1>3. CASE SwitchAnswers
  <2>2. toServer' = Append(toServer, selected') /\ selected' \in Ports
    BY <1>3 DEF SwitchAnswers
  <2>3. toServer' # <<>> /\ toServer'[Len(toServer')] = selected'
    BY <2>2, LastOfAppend
  <2>. QED  BY <1>0, <1>3, <2>3 DEF SwitchAnswers
<1>4. CASE ReplyArrives
  <2>1. toServer \in Seq(Ports) /\ toServer # <<>>
    BY <1>4 DEF ReplyArrives
  <2>2. toServer' = Tail(toServer) /\ shown' = Head(toServer) /\ ~prompt'
    BY <1>0, <1>4 DEF ReplyArrives
  <2>3. Newest' = Newest
    BY <2>1, <2>2, RestOfSequence DEF Newest
  <2>. QED  BY <1>0, <1>4, <2>1, <2>2, <2>3 DEF ReplyArrives, LatestWins
<1>5. CASE TurnedByHand
  BY <1>0, <1>5 DEF TurnedByHand
<1>6. CASE UNCHANGED switchVars
  BY <1>0, <1>6 DEF switchVars
<1>. QED  BY <1>1, <1>2, <1>3, <1>4, <1>5, <1>6 DEF SwitchNext

\* When the line is quiet the port shown is the one selected, unless the switch
\* was turned by hand since its latest reply or a reply was cut off its prompt.
THEOREM ShownIsAlwaysSelected == SwitchSpec => []ShownIsSelected
<1>1. SwitchInit /\ SwitchTypeOK => SwitchInv
  BY DEF SwitchInit, SwitchInv, LatestWins
<1>2. SwitchInv => ShownIsSelected
  BY DEF SwitchInv, LatestWins, Newest, ShownIsSelected, LineQuiet
<1>. QED  BY <1>1, <1>2, SwitchInvStep, SwitchTypeCorrect, PTL DEF SwitchSpec

-----------------------------------------------------------------------------
(* CAT path *)

LEMMA CatTypesKept == CatTypeOK /\ [CatNext]_catVars => CatTypeOK'
<1> SUFFICES ASSUME CatTypeOK, [CatNext]_catVars PROVE CatTypeOK'
  OBVIOUS
<1> USE CatAssumption DEF CatTypeOK, weather
<1> DEFINE LeftBy(s) == [c \in Conns |-> IF c \in Of(s) /\ conn[c] \in {"open", "stale"}
                                         THEN "left" ELSE conn[c]]
<1>1. \A s : LeftBy(s) \in [Conns -> {"free", "open", "stale", "left"}]
  OBVIOUS
<1>2. \A s \in CatStations : Of(s) \subseteq Conns
  BY DEF Of, Conns
<1> HIDE DEF LeftBy
<1>3. ASSUME NEW s \in CatStations, OpenCom(s) PROVE CatTypeOK'
  BY <1>3 DEF OpenCom
<1>4. ASSUME NEW s \in CatStations, Connected(s) PROVE CatTypeOK'
  BY <1>2, <1>4 DEF Connected
<1>5. ASSUME NEW s \in CatStations, ConnectRefused(s) PROVE CatTypeOK'
  BY <1>5 DEF ConnectRefused
<1>6. ASSUME NEW s \in CatStations, RelayGivesUp(s) PROVE CatTypeOK'
  <2>1. conn' = LeftBy(s)
    BY <1>6 DEF RelayGivesUp, LeftBy
  <2> QED BY <1>1, <1>6, <2>1 DEF RelayGivesUp
<1>7. ASSUME NEW s \in CatStations, ComFills(s) PROVE CatTypeOK'
  BY <1>7 DEF ComFills
<1>8. ASSUME NEW s \in CatStations, RelayFails(s) PROVE CatTypeOK'
  <2>1. conn' = LeftBy(s)
    BY <1>8 DEF RelayFails, LeftBy
  <2> QED BY <1>1, <1>8, <2>1 DEF RelayFails
<1>9. ASSUME NEW c \in Conns, HandlerEnds(c) PROVE CatTypeOK'
  <2>1. tcpWriter' \in Conns \cup {NoConn} /\ latest' = latest
    BY <1>9 DEF HandlerEnds
  <2>2. conn' \in [Conns -> {"free", "open", "stale", "left"}]
    BY <1>9 DEF HandlerEnds
  <2> QED BY <1>9, <2>1, <2>2 DEF HandlerEnds
<1>10. CASE BridgeDown
  <2>1. {refusable, drained, serving, serialUp}' \subseteq BOOLEAN
    BY <1>10 DEF BridgeDown
  <2>2. conn' \in [Conns -> {"free", "open", "stale", "left"}]
    BY <1>10 DEF BridgeDown
  <2>3. {tcpWriter, latest}' \subseteq Conns \cup {NoConn} /\ catEvents' \in 0..MaxCatEvents
    BY <1>10 DEF BridgeDown
  <2> QED BY <1>10, <2>1, <2>2, <2>3 DEF BridgeDown
<1>11. CASE BridgeUp
  <2>1. {refusable, drained, serving, serialUp}' \subseteq BOOLEAN
    BY <1>11 DEF BridgeUp
  <2> QED BY <1>11, <2>1 DEF BridgeUp
<1>12. CASE SerialLost
  <2>1. {refusable, drained, serving, serialUp}' \subseteq BOOLEAN
    BY <1>12 DEF SerialLost
  <2> QED BY <1>12, <2>1 DEF SerialLost
<1>13. CASE UNCHANGED catVars
  BY <1>13 DEF catVars
<1> QED BY <1>3, <1>4, <1>5, <1>6, <1>7, <1>8, <1>9, <1>10, <1>11, <1>12, <1>13
        DEF CatNext, RelayStep

LEMMA CatTypesStart == CatInit => CatTypeOK
BY CatAssumption DEF CatInit, CatTypeOK

\* Every variable of the CAT path keeps its type.
THEOREM CatTypeCorrect == CatSpec => []CatTypeOK
BY CatTypesStart, CatTypesKept, PTL DEF CatSpec

\* A relay that never finds the radio's ports closed is connecting only while
\* the bridge accepts, so that no attempt ends with the COM port left open.
NoneRefused ==
    ~refusable => \A s \in CatStations :
        /\ comOpen[s] => relay[s] # "idle"
        /\ relay[s] = "connecting" => serving

LEMMA LatestGetsRepliesKept ==
    CatTypeOK /\ LatestGetsReplies /\ [CatNext]_catVars => LatestGetsReplies'
<1> SUFFICES ASSUME CatTypeOK, LatestGetsReplies, [CatNext]_catVars,
                    latest' # NoConn, conn'[latest'] = "open"
             PROVE  tcpWriter' = latest'
  BY DEF LatestGetsReplies
<1> USE DEF CatTypeOK, LatestGetsReplies
<1>1. ASSUME NEW s \in CatStations, Connected(s) PROVE tcpWriter' = latest'
  BY <1>1 DEF Connected
<1>2. ASSUME NEW s \in CatStations, RelayGivesUp(s) \/ RelayFails(s)
      PROVE  tcpWriter' = latest'
  BY <1>2 DEF RelayGivesUp, RelayFails
<1>3. ASSUME NEW c \in Conns, HandlerEnds(c) PROVE tcpWriter' = latest'
  BY <1>3 DEF HandlerEnds
<1>4. CASE BridgeDown
  BY <1>4 DEF BridgeDown
<1>5. ASSUME UNCHANGED <<conn, tcpWriter, latest>> PROVE tcpWriter' = latest'
  BY <1>5
<1> QED BY <1>1, <1>2, <1>3, <1>4, <1>5
        DEF CatNext, RelayStep, OpenCom, ConnectRefused, ComFills, BridgeUp, SerialLost, catVars

LEMMA NoneRefusedKept == CatTypeOK /\ NoneRefused /\ [CatNext]_catVars => NoneRefused'
<1> SUFFICES ASSUME CatTypeOK, NoneRefused, [CatNext]_catVars
             PROVE  NoneRefused'
  OBVIOUS
<1> USE DEF CatTypeOK, NoneRefused, weather
<1>1. ASSUME NEW s \in CatStations, OpenCom(s) PROVE NoneRefused'
  BY <1>1 DEF OpenCom
<1>2. ASSUME NEW s \in CatStations, Connected(s) PROVE NoneRefused'
  BY <1>2 DEF Connected
<1>3. ASSUME NEW s \in CatStations, ConnectRefused(s) PROVE NoneRefused'
  BY <1>3 DEF ConnectRefused
<1>4. ASSUME NEW s \in CatStations, RelayGivesUp(s) \/ RelayFails(s) PROVE NoneRefused'
  BY <1>4 DEF RelayGivesUp, RelayFails
<1>5. ASSUME NEW s \in CatStations, ComFills(s) PROVE NoneRefused'
  BY <1>5 DEF ComFills
<1>6. ASSUME NEW c \in Conns, HandlerEnds(c) PROVE NoneRefused'
  BY <1>6 DEF HandlerEnds
<1>7. CASE BridgeDown
  BY <1>7 DEF BridgeDown
<1>8. CASE BridgeUp
  BY <1>8 DEF BridgeUp
<1>9. CASE SerialLost
  BY <1>9 DEF SerialLost
<1>10. CASE UNCHANGED catVars
  BY <1>10 DEF catVars
<1> QED BY <1>1, <1>2, <1>3, <1>4, <1>5, <1>6, <1>7, <1>8, <1>9, <1>10 DEF CatNext, RelayStep

\* The connection accepted last has the replies until it is closed, and a COM
\* port that was let go can be opened again.
THEOREM CatInOrderHolds == CatSpec => []CatInOrder
<1>1. CatInit => LatestGetsReplies /\ NoneRefused
  BY DEF CatInit, LatestGetsReplies, NoneRefused
<1>2. LatestGetsReplies /\ NoneRefused => CatInOrder
  BY DEF CatInOrder, ComPortReleased, NoneRefused
<1> QED BY <1>1, LatestGetsRepliesKept, NoneRefusedKept, <1>2, CatTypeCorrect, PTL DEF CatSpec

-----------------------------------------------------------------------------
(* The audio link *)

\* Where the news of a change is while the two ends may differ: in the message,
\* in the request for the list, or nowhere because the client has the new row.
NewsUnderWay ==
    /\ change # "idle" => serverLink = NoLink
    /\ serverLink \in {row, NoLink}
    /\ notice \/ refetch \/ (change # "stopped" /\ clientLink \in {row, NoLink})

\* What makes LinksAgree inductive.
AudioInv == AudioTypeOK /\ (haste = {} => NewsUnderWay)

LEMMA AudioTypesKept == AudioTypeOK /\ [AudioNext]_audioVars => AudioTypeOK'
<1> SUFFICES ASSUME AudioTypeOK, [AudioNext]_audioVars PROVE AudioTypeOK'
  OBVIOUS
<1> USE AudioAssumption DEF AudioTypeOK, AudioEvent, NewLink
<1>1. ASSUME NEW s \in Settings, Reconfigure(s) PROVE AudioTypeOK'
  <2>1. {row, asked}' \subseteq Settings /\ {serverLink, clientLink}' \subseteq Settings \cup {NoLink}
    BY <1>1 DEF Reconfigure
  <2>2. {peerKnown, ctl, notice, refetch, announcing}' \subseteq BOOLEAN
    BY <1>1 DEF Reconfigure
  <2>3. audioEvents' \in 0..MaxAudioEvents
    BY <1>1 DEF Reconfigure
  <2> QED BY <1>1, <2>1, <2>2, <2>3 DEF Reconfigure
<1>2. CASE RowSaved BY <1>2 DEF RowSaved
<1>3. CASE BridgeStarted 
  <2>1. serverLink' \in Settings \cup {NoLink} /\ clientLink' \in Settings \cup {NoLink}
    BY <1>3 DEF BridgeStarted
  <2>2. {peerKnown, ctl, notice, refetch, announcing}' \subseteq BOOLEAN
    BY <1>3 DEF BridgeStarted
  <2> QED BY <1>3, <2>1, <2>2 DEF BridgeStarted
<1>4. CASE ServerHears
  <2>1. {peerKnown, ctl, notice, refetch, announcing}' \subseteq BOOLEAN
    BY <1>4 DEF ServerHears
  <2> QED BY <1>4, <2>1 DEF ServerHears
<1>5. CASE NoticeRead BY <1>5 DEF NoticeRead
<1>6. CASE Refetched BY <1>6 DEF Refetched
<1>7. CASE CtlConnects
  <2>1. {serverLink, clientLink}' \subseteq Settings \cup {NoLink}
    BY <1>7 DEF CtlConnects, Settings
  <2>2. {peerKnown, ctl, notice, refetch, announcing}' \subseteq BOOLEAN
    BY <1>7 DEF CtlConnects
  <2>3. audioEvents' \in 0..MaxAudioEvents
    BY <1>7 DEF CtlConnects
  <2> QED BY <1>7, <2>1, <2>2, <2>3 DEF CtlConnects
<1>8. CASE CtlDrops
  <2>1. {serverLink, clientLink}' \subseteq Settings \cup {NoLink}
    BY <1>8 DEF CtlDrops, Settings
  <2>2. {peerKnown, ctl, notice, refetch, announcing}' \subseteq BOOLEAN
    BY <1>8 DEF CtlDrops
  <2>3. audioEvents' \in 0..MaxAudioEvents
    BY <1>8 DEF CtlDrops
  <2> QED BY <1>8, <2>1, <2>2, <2>3 DEF CtlDrops
<1>9. CASE Reselect
  <2>1. {serverLink, clientLink}' \subseteq Settings \cup {NoLink}
    BY <1>9 DEF Reselect, Settings
  <2>2. {peerKnown, ctl, notice, refetch, announcing}' \subseteq BOOLEAN
    BY <1>9 DEF Reselect
  <2>3. audioEvents' \in 0..MaxAudioEvents
    BY <1>9 DEF Reselect
  <2> QED BY <1>9, <2>1, <2>2, <2>3 DEF Reselect
<1>10. CASE UNCHANGED audioVars BY <1>10 DEF audioVars
<1> QED BY <1>1, <1>2, <1>3, <1>4, <1>5, <1>6, <1>7, <1>8, <1>9, <1>10 DEF AudioNext

LEMMA AudioTypesStart == AudioInit => AudioTypeOK
<1> SUFFICES ASSUME AudioInit PROVE AudioTypeOK
  OBVIOUS
<1>1. {peerKnown, ctl, notice, refetch, announcing} \subseteq BOOLEAN
  BY DEF AudioInit
<1>2. audioEvents \in 0..MaxAudioEvents
  BY AudioAssumption DEF AudioInit
<1>3. row \in Settings /\ asked \in Settings /\ serverLink \in Settings /\ clientLink \in Settings
  BY DEF AudioInit, Settings
<1> QED BY <1>1, <1>2, <1>3 DEF AudioInit, AudioTypeOK

\* Every variable of the audio link keeps its type.
THEOREM AudioTypeCorrect == AudioSpec => []AudioTypeOK
BY AudioTypesStart, AudioTypesKept, PTL DEF AudioSpec

LEMMA AudioInvKept == AudioInv /\ AudioTypeOK' /\ [AudioNext]_audioVars => AudioInv'
<1> SUFFICES ASSUME AudioTypeOK, AudioTypeOK', haste = {}, NewsUnderWay,
                    [AudioNext]_audioVars
             PROVE  NewsUnderWay'
  BY DEF AudioInv, AudioNext, audioVars,  Reconfigure, RowSaved, BridgeStarted,
    ServerHears, NoticeRead, Refetched, CtlConnects, CtlDrops, Reselect
<1> USE DEF NewsUnderWay, NoLink
<1>1. ASSUME NEW s \in Settings, Reconfigure(s) PROVE NewsUnderWay'
  BY <1>1 DEF Reconfigure
<1>2. CASE RowSaved BY <1>2 DEF RowSaved
<1>3. CASE BridgeStarted BY <1>3 DEF BridgeStarted
<1>4. CASE ServerHears BY <1>4 DEF ServerHears
<1>5. CASE NoticeRead BY <1>5 DEF NoticeRead
<1>6. CASE Refetched BY <1>6 DEF Refetched, NewLink
<1>7. CASE CtlConnects BY <1>7 DEF CtlConnects
<1>8. CASE CtlDrops BY <1>8 DEF CtlDrops
<1>9. CASE Reselect BY <1>9 DEF Reselect
<1>10. CASE UNCHANGED audioVars BY <1>10 DEF audioVars
<1> QED BY <1>1, <1>2, <1>3, <1>4, <1>5, <1>6, <1>7, <1>8, <1>9, <1>10 DEF AudioNext

LEMMA AudioInvHolds == AudioSpec => []AudioInv
<1>1. AudioInit => (haste = {} => NewsUnderWay)
  BY DEF AudioInit, NewsUnderWay, NoLink
<1> QED BY <1>1, AudioInvKept, AudioTypeCorrect, PTL DEF AudioSpec, AudioInv

\* The two ends do not drift onto different codecs, if the client hears of every
\* change, its request is answered after the row is saved, and the radio is not
\* selected again from the window's list.
THEOREM LinksAgreeHolds == AudioSpec => []LinksAgree
<1>1. AudioInv => LinksAgree
  BY DEF AudioInv, AudioTypeOK, LinksAgree, Agree, NewsUnderWay, NoLink
<1> QED BY <1>1, AudioInvHolds, PTL

-----------------------------------------------------------------------------
(* Frames *)

\* The sum is defined by recursion over a sequence of any length; for the lengths
\* that occur a function that satisfies the equation is written down.
LEMMA SumOfFour ==
    ASSUME NEW a \in Bytes, NEW b \in Bytes, NEW c \in Bytes, NEW d \in Bytes
    PROVE  ByteSum(<<a, b, c, d>>) = (a + b + c + d) % Base
<1> DEFINE s == <<a, b, c, d>>
           G(f) == [n \in 0..4 |-> IF n = 0 THEN 0 ELSE (f[n - 1] + s[n]) % Base]
           w == [n \in 0..4 |-> IF n = 0 THEN 0 ELSE IF n = 1 THEN a % Base
                                ELSE IF n = 2 THEN (a + b) % Base
                                ELSE IF n = 3 THEN (a + b + c) % Base
                                ELSE (a + b + c + d) % Base]
           total == CHOOSE f : f = G(f)
<1>1. w = G(w)
  BY DEF Bytes, Base
<1>2. total = G(total)
  BY <1>1
<1>3. ByteSum(s) = total[4]
  BY DEF ByteSum
<1> HIDE DEF total
<1>4. \A n \in 0..4 : total[n] = IF n = 0 THEN 0 ELSE (total[n - 1] + s[n]) % Base
  BY <1>2
<1>5. total[0] = 0 /\ total[1] = (total[0] + a) % Base /\ total[2] = (total[1] + b) % Base
      /\ total[3] = (total[2] + c) % Base /\ total[4] = (total[3] + d) % Base
  BY <1>4
<1> QED BY <1>3, <1>5 DEF Bytes, Base

LEMMA SumOfFive ==
    ASSUME NEW a \in Bytes, NEW b \in Bytes, NEW c \in Bytes, NEW d \in Bytes, NEW e \in Bytes
    PROVE  ByteSum(<<a, b, c, d, e>>) = (a + b + c + d + e) % Base
<1> DEFINE s == <<a, b, c, d, e>>
           G(f) == [n \in 0..5 |-> IF n = 0 THEN 0 ELSE (f[n - 1] + s[n]) % Base]
           w == [n \in 0..5 |-> IF n = 0 THEN 0 ELSE IF n = 1 THEN a % Base
                                ELSE IF n = 2 THEN (a + b) % Base
                                ELSE IF n = 3 THEN (a + b + c) % Base
                                ELSE IF n = 4 THEN (a + b + c + d) % Base
                                ELSE (a + b + c + d + e) % Base]
           total == CHOOSE f : f = G(f)
<1>1. w = G(w)
  BY DEF Bytes, Base
<1>2. total = G(total)
  BY <1>1
<1>3. ByteSum(s) = total[5]
  BY DEF ByteSum
<1> HIDE DEF total
<1>4. \A n \in 0..5 : total[n] = IF n = 0 THEN 0 ELSE (total[n - 1] + s[n]) % Base
  BY <1>2
<1>5. total[0] = 0 /\ total[1] = (total[0] + a) % Base /\ total[2] = (total[1] + b) % Base
      /\ total[3] = (total[2] + c) % Base /\ total[4] = (total[3] + d) % Base
      /\ total[5] = (total[4] + e) % Base
  BY <1>4
<1> QED BY <1>3, <1>5 DEF Bytes, Base

\* The last byte of a frame makes its sum zero.
LEMMA FrameShape ==
    ASSUME NEW r \in Readings
    PROVE  /\ r = <<r[1], r[2]>> /\ r[1] \in Bytes /\ r[2] \in Bytes
           /\ \E check \in Bytes :
                /\ Frame(r) = <<Mark, Mark2, r[1], r[2], check>>
                /\ ByteSum(<<Mark, Mark2, r[1], r[2], check>>) = 0
<1>1. r = <<r[1], r[2]>> /\ r[1] \in Bytes /\ r[2] \in Bytes
  BY TelemetryAssumption DEF Readings
<1> DEFINE sum == (Mark + Mark2 + r[1] + r[2]) % Base
           check == (Base - sum) % Base
<1>2. Mark \in Bytes /\ Mark2 \in Bytes
  BY DEF Bytes, Base, Mark, Mark2
<1>3. sum \in 0..3 /\ check \in Bytes
  BY <1>1 DEF Bytes, Base, Mark, Mark2
<1>4. ByteSum(<<Mark, Mark2, r[1], r[2]>>) = sum
  BY <1>1, <1>2, SumOfFour
<1>5. Frame(r) = <<Mark, Mark2, r[1], r[2], check>>
  BY <1>4 DEF Frame
<1> HIDE DEF check, sum
<1>6. ByteSum(<<Mark, Mark2, r[1], r[2], check>>) = 0
  <2>1. ByteSum(<<Mark, Mark2, r[1], r[2], check>>) = (Mark + Mark2 + r[1] + r[2] + check) % Base
    BY <1>1, <1>2, <1>3, SumOfFive
  <2>2. (Mark + Mark2 + r[1] + r[2] + check) % Base = 0
    BY <1>1, <1>3 DEF Bytes, Base, Mark, Mark2, check, sum
  <2> QED BY <2>1, <2>2
<1> QED BY <1>1, <1>3, <1>5, <1>6

-----------------------------------------------------------------------------
(* The parser *)

\* A buffer of four bytes, the message it becomes and the reading in it.
LEMMA FullBuffer ==
    ASSUME NEW S, NEW q \in Seq(S), Len(q) = 4, NEW b \in S
    PROVE  /\ Append(q, b) = <<q[1], q[2], q[3], q[4], b>>
           /\ SubSeq(q, 3, 4) = <<q[3], q[4]>>
           /\ \A i \in 1..4 : q[i] \in S
<1>1. \A i \in 1..4 : q[i] \in S
  BY ElementOfSeq
<1>2. Append(q, b) = <<q[1], q[2], q[3], q[4], b>>
  <2> DEFINE full == Append(q, b)
  <2>1. /\ full \in Seq(S) /\ Len(full) = 5
        /\ full[1] = q[1] /\ full[2] = q[2] /\ full[3] = q[3] /\ full[4] = q[4] /\ full[5] = b
    <3>1. /\ full \in Seq(S) /\ Len(full) = Len(q) + 1
          /\ \A i \in 1..Len(q) : full[i] = q[i]
          /\ full[Len(q) + 1] = b
      BY AppendIs
    <3> HIDE DEF full
    <3>2. /\ full \in Seq(S) /\ Len(full) = 4 + 1
          /\ \A i \in 1..4 : full[i] = q[i]
          /\ full[4 + 1] = b
      BY <3>1
    <3> QED BY <3>2
  <2>2. <<q[1], q[2], q[3], q[4], b>> \in Seq(S) /\ Len(<<q[1], q[2], q[3], q[4], b>>) = 5
    BY <1>1
  <2> HIDE DEF full
  <2>3. \A i \in 1..5 : full[i] = <<q[1], q[2], q[3], q[4], b>>[i]
    BY <2>1
  <2>4. full = <<q[1], q[2], q[3], q[4], b>>
    BY <2>1, <2>2, <2>3, SeqEqual
  <2> QED BY <2>4 DEF full
<1>3. SubSeq(q, 3, 4) = <<q[3], q[4]>>
  <2> DEFINE piece == SubSeq(q, 3, 4)
  <2>1. \A i \in 3..4 : q[i] \in S
    BY <1>1
  <2>2. piece \in Seq(S)
    BY <2>1, SubSeqProperties
  <2>3. Len(piece) = 2
    BY <2>1, SubSeqProperties
  <2>4. piece[1] = q[3] /\ piece[2] = q[4]
    BY <2>1, SubSeqProperties
  <2>5. <<q[3], q[4]>> \in Seq(S) /\ Len(<<q[3], q[4]>>) = 2
    BY <1>1
  <2> HIDE DEF piece
  <2>6. \A i \in 1..2 : piece[i] = <<q[3], q[4]>>[i]
    BY <2>4
  <2>7. piece = <<q[3], q[4]>>
    BY <2>2, <2>3, <2>5, <2>6, SeqEqual
  <2> QED BY <2>7 DEF piece
<1> QED BY <1>1, <1>2, <1>3

LEMMA FeedTypes ==
    ASSUME NEW b \in Bytes, buffer \in Seq(Bytes), Len(buffer) < FrameLength
    PROVE  Feed(b) \in Seq(Bytes) /\ Len(Feed(b)) < FrameLength
<1>1. Len(<<>>) = 0 /\ <<>> \in Seq(Bytes) /\ Len(<<b>>) = 1 /\ <<b>> \in Seq(Bytes)
  OBVIOUS
<1>2. Append(buffer, b) \in Seq(Bytes) /\ Len(Append(buffer, b)) = Len(buffer) + 1
  OBVIOUS
<1>3. Len(buffer) \in Nat /\ FrameLength = 5
  BY DEF FrameLength
<1>4. \A n \in Nat : n < 5 /\ n # 4 => n + 1 < 5
  OBVIOUS
<1>5. Len(buffer) # 4 => Len(Append(buffer, b)) < 5
  BY <1>2, <1>3, <1>4
<1> QED BY <1>1, <1>2, <1>3, <1>5 DEF Feed

LEMMA ReceivedTypes ==
    ASSUME TelemetryTypeOK, NEW b \in Bytes, Received(b)
    PROVE  /\ buffer' \in Seq(Bytes) /\ Len(buffer') < FrameLength
           /\ lastFrame' \in {Nothing} \cup (Bytes \X Bytes)
           /\ fault' \in BOOLEAN
<1>1. buffer' \in Seq(Bytes) /\ Len(buffer') < FrameLength
  BY FeedTypes DEF TelemetryTypeOK, Received
<1>2. CASE Completes(b)
  <2>1. buffer \in Seq(Bytes) /\ Len(buffer) = 4
    BY <1>2 DEF Completes, TelemetryTypeOK, FrameLength
  <2>2. SubSeq(buffer, 3, 4) \in Bytes \X Bytes
    BY <2>1, FullBuffer
  <2> QED BY <1>1, <1>2, <2>2 DEF Received, Faulty
<1>3. CASE ~Completes(b)
  BY <1>1, <1>3 DEF Received, TelemetryTypeOK
<1> QED BY <1>2, <1>3

LEMMA TelemetryTypesKept == TelemetryTypeOK /\ [TelemetryNext]_telemetryVars => TelemetryTypeOK'
<1> SUFFICES ASSUME TelemetryTypeOK, [TelemetryNext]_telemetryVars PROVE TelemetryTypeOK'
  OBVIOUS
<1>1. ASSUME SendByte
      PROVE  /\ sent' \in 0..FrameLength - 1
             /\ {reading, sending, previous}' \subseteq Readings
             /\ UNCHANGED <<medium, linkUp, enabled>>
  BY <1>1 DEF SendByte, TelemetryTypeOK, FrameLength
<1>2. CASE ByteArrives
  <2>1. Frame(sending)[sent + 1] \in Bytes
    <3>1. PICK check \in Bytes : Frame(sending) = <<Mark, Mark2, sending[1], sending[2], check>>
      BY FrameShape DEF TelemetryTypeOK
    <3>2. sent + 1 \in 1..5 /\ sending[1] \in Bytes /\ sending[2] \in Bytes
      BY FrameShape DEF TelemetryTypeOK, FrameLength
    <3> QED BY <3>1, <3>2 DEF Bytes, Base, Mark, Mark2
  <2>2. /\ buffer' \in Seq(Bytes) /\ Len(buffer') < FrameLength
        /\ lastFrame' \in {Nothing} \cup (Bytes \X Bytes)
        /\ fault' \in BOOLEAN
    BY <1>2, <2>1, ReceivedTypes DEF ByteArrives
  <2> QED BY <1>1, <1>2, <2>2 DEF ByteArrives, TelemetryTypeOK
<1>3. CASE ByteSpoilt
  <2>1. /\ buffer' \in Seq(Bytes) /\ Len(buffer') < FrameLength
        /\ lastFrame' \in {Nothing} \cup (Bytes \X Bytes)
        /\ fault' \in BOOLEAN
    BY <1>3, ReceivedTypes DEF ByteSpoilt, TelemetryTypeOK
  <2>2. upsets' \in 0..MaxUpsets /\ clean' = FALSE
    BY <1>3, TelemetryAssumption DEF ByteSpoilt, TelemetryTypeOK
  <2> QED BY <1>1, <1>3, <2>1, <2>2 DEF ByteSpoilt, TelemetryTypeOK
<1>4. CASE Reenable
  BY <1>4 DEF Reenable, TelemetryTypeOK
<1>5. CASE PollEbox
  <2>1. fault' \in BOOLEAN
    BY <1>5 DEF PollEbox, Faulty
  <2> QED BY <1>5, <2>1 DEF PollEbox, TelemetryTypeOK
<1>6. CASE AmpEvent
  <2>1. upsets' \in 0..MaxUpsets /\ {reading, sending, previous}' \subseteq Readings
    BY <1>6, TelemetryAssumption DEF AmpEvent, TelemetryTypeOK
  <2>2. {linkUp, enabled, fault}' \subseteq BOOLEAN
    BY <1>6 DEF AmpEvent, TelemetryTypeOK
  <2>3. clean' \in BOOLEAN
    BY <1>6 DEF AmpEvent
  <2> QED BY <1>6, <2>1, <2>2, <2>3 DEF AmpEvent, TelemetryTypeOK
<1>7. CASE UNCHANGED telemetryVars
  BY <1>7 DEF telemetryVars, TelemetryTypeOK
<1> QED BY <1>2, <1>3, <1>4, <1>5, <1>6, <1>7 DEF TelemetryNext

LEMMA TelemetryTypesStart == TelemetryInit => TelemetryTypeOK
<1> SUFFICES ASSUME TelemetryInit PROVE TelemetryTypeOK
  OBVIOUS
<1>1. buffer \in Seq(Bytes) /\ Len(buffer) < FrameLength
  BY DEF TelemetryInit, FrameLength
<1>2. clean \in BOOLEAN
  BY DEF TelemetryInit, Unmistakable
<1>3. {linkUp, enabled, fault} \subseteq BOOLEAN
  BY DEF TelemetryInit
<1>4. upsets \in 0..MaxUpsets /\ lastFrame \in {Nothing}
  BY TelemetryAssumption DEF TelemetryInit
<1> QED BY <1>1, <1>2, <1>3, <1>4 DEF TelemetryInit, TelemetryTypeOK

\* Every variable of the telemetry keeps its type.
THEOREM TelemetryTypeCorrect == TelemetrySpec => []TelemetryTypeOK
BY TelemetryTypesStart, TelemetryTypesKept, PTL DEF TelemetrySpec

\* The buffer holds what has been sent of the frame under way,
InFrame == Len(buffer) = sent /\ \A i \in 1..sent : buffer[i] = Frame(sending)[i]

\* or a mark in the middle of a frame, after which no second mark can come.
FalseStart == Len(buffer) = 1 /\ sent # 0 /\ buffer[1] = Mark /\ Frame(sending)[sent] = Mark

\* The parser is with the stream, once it has found a frame for good.
WithStream ==
    /\ Unmistakable(reading) /\ Unmistakable(sending)
    /\ sent = 0 => buffer = <<>>
    /\ InFrame \/ (lastFrame = Nothing /\ (buffer = <<>> \/ FalseStart))
    /\ lastFrame \in {Nothing, previous}

\* What makes NothingInvented inductive.
StreamInv == medium = "stream" /\ clean => WithStream

LEMMA ByteArrivesKeeps ==
    ASSUME TelemetryTypeOK, WithStream, ByteArrives
    PROVE  WithStream'
<1> DEFINE b == Frame(sending)[sent + 1]
<1>1. PICK check \in Bytes : /\ Frame(sending) = <<Mark, Mark2, sending[1], sending[2], check>>
                             /\ ByteSum(<<Mark, Mark2, sending[1], sending[2], check>>) = 0
  BY FrameShape DEF TelemetryTypeOK
<1>2. sending = <<sending[1], sending[2]>> /\ sending[1] \in Bytes /\ sending[2] \in Bytes
  BY FrameShape DEF TelemetryTypeOK
<1>3. /\ check # Mark
      /\ sending[1] # Mark \/ sending[2] # Mark2
      /\ sending[2] # Mark \/ check # Mark2
  <2>1. 3 \in 2..FrameLength - 1 /\ 4 \in 2..FrameLength - 1
    BY DEF FrameLength
  <2> QED BY <1>1, <2>1 DEF WithStream, Unmistakable, FrameLength
<1>4. sent \in 0..4 /\ buffer \in Seq(Bytes) /\ Len(buffer) \in 0..4
  <2>1. sent \in 0..4 /\ buffer \in Seq(Bytes) /\ Len(buffer) < 5
    BY DEF TelemetryTypeOK, FrameLength
  <2>2. Len(buffer) \in Nat
    BY <2>1, LenProperties
  <2>3. \A n \in Nat : n < 5 => n \in 0..4
    OBVIOUS
  <2> QED BY <2>1, <2>2, <2>3
<1>5. Received(b) /\ SendByte
  BY DEF ByteArrives
<1>6. IF sent = 4 THEN sent' = 0 /\ sending' = reading /\ previous' = sending
                  ELSE sent' = sent + 1 /\ UNCHANGED <<sending, previous>>
  BY <1>5 DEF SendByte, FrameLength
<1>7. reading' = reading /\ (Unmistakable(reading) /\ Unmistakable(sending))'
  BY <1>5, <1>6 DEF SendByte, WithStream
<1>8. Len(<<>>) = 0 /\ \A x : Len(<<x>>) = 1 /\ <<x>>[1] = x
  OBVIOUS
<1>9. CASE sent = 4
  <2>1. b = check
    BY <1>1, <1>9
  <2>2. buffer' = <<>>
    <3>1. CASE InFrame
      <4>1. buffer # <<>> /\ Len(buffer) = FrameLength - 1
        BY <1>8, <1>9, <3>1 DEF InFrame, FrameLength
      <4> QED BY <1>5, <4>1 DEF Received, Feed
    <3>2. CASE buffer = <<>>
      BY <1>3, <1>5, <2>1, <3>2 DEF Received, Feed
    <3>3. CASE FalseStart
      <4>1. b # Mark2 /\ Len(buffer) = 1 /\ buffer # <<>>
        BY <1>1, <1>3, <1>8, <1>9, <2>1, <3>3 DEF FalseStart
      <4> QED BY <1>5, <4>1 DEF Received, Feed
    <3> QED BY <3>1, <3>2, <3>3 DEF WithStream
  <2>3. lastFrame' \in {Nothing, sending}
    <3>1. CASE InFrame
      <4>1. /\ Len(buffer) = 4 /\ buffer[1] = Mark /\ buffer[2] = Mark2
            /\ buffer[3] = sending[1] /\ buffer[4] = sending[2]
        BY <1>1, <1>9, <3>1 DEF InFrame
      <4>2. Append(buffer, b) = <<Mark, Mark2, sending[1], sending[2], check>>
            /\ SubSeq(buffer, 3, 4) = sending
        BY <1>2, <1>4, <2>1, <4>1, FullBuffer
      <4>3. Completes(b)
        <5>1. ByteSum(Append(buffer, b)) = 0
          BY <1>1, <4>2
        <5> QED BY <4>1, <5>1 DEF Completes, FrameLength
      <4> QED BY <1>5, <4>2, <4>3 DEF Received
    <3>2. CASE lastFrame = Nothing /\ (buffer = <<>> \/ FalseStart)
      BY <1>5, <1>8, <3>2 DEF Received, Completes, FalseStart, FrameLength
    <3> QED BY <3>1, <3>2 DEF WithStream
  <2> QED BY <1>6, <1>7, <1>8, <1>9, <2>2, <2>3 DEF WithStream, InFrame
<1>10. CASE sent # 4
  <2>1. sent' = sent + 1 /\ sending' = sending /\ previous' = previous /\ sent' # 0
    BY <1>4, <1>6, <1>10
  <2>2. Len(buffer) # 4 /\ lastFrame' = lastFrame
    BY <1>4, <1>5, <1>8, <1>10 DEF Received, Completes, FrameLength, WithStream, InFrame, FalseStart
  <2>3. CASE InFrame
    <3>1. Feed(b) = IF sent = 0 THEN <<b>> ELSE Append(buffer, b)
      <4>1. CASE sent = 0
        BY <1>1, <1>4, <4>1 DEF Feed, WithStream
      <4>2. CASE sent # 0
        <5>1. buffer # <<>> /\ (Len(buffer) = 1 => b = Mark2)
          BY <1>1, <1>8, <2>3, <4>2 DEF InFrame
        <5> QED BY <2>2, <4>2, <5>1 DEF Feed, FrameLength
      <4> QED BY <4>1, <4>2
    <3>2. Len(buffer') = sent + 1 /\ \A i \in 1..sent + 1 : buffer'[i] = Frame(sending)[i]
      BY <1>4, <1>5, <1>8, <2>3, <3>1 DEF InFrame, Received
    <3>3. InFrame'
      BY <2>1, <3>2 DEF InFrame
    <3> QED BY <1>7, <2>1, <2>2, <3>3 DEF WithStream
  <2>4. CASE ~InFrame /\ lastFrame = Nothing /\ buffer = <<>>
    <3>1. buffer' = IF b = Mark THEN <<b>> ELSE <<>>
      BY <1>5, <2>4 DEF Received, Feed
    <3>2. buffer' = <<>> \/ FalseStart'
      BY <1>8, <2>1, <3>1 DEF FalseStart
    <3> QED BY <1>7, <2>1, <2>2, <2>4, <3>2 DEF WithStream
  <2>5. CASE ~InFrame /\ lastFrame = Nothing /\ FalseStart
    <3>1. sent = 3
      <4>1. sent # 1
        BY <1>1, <2>5 DEF InFrame, FalseStart
      <4>2. sent # 2
        BY <1>1, <2>5 DEF FalseStart, Mark, Mark2
      <4> QED BY <1>4, <1>10, <2>5, <4>1, <4>2 DEF FalseStart
    <3>2. b # Mark2 /\ Len(buffer) = 1 /\ buffer # <<>>
      BY <1>1, <1>3, <1>8, <2>5, <3>1 DEF FalseStart
    <3>3. buffer' = <<>>
      BY <1>5, <3>2 DEF Received, Feed
    <3> QED BY <1>7, <2>1, <2>2, <2>5, <3>3 DEF WithStream
  <2> QED BY <2>3, <2>4, <2>5 DEF WithStream
<1> QED BY <1>9, <1>10

LEMMA StreamInvKept == TelemetryTypeOK /\ StreamInv /\ [TelemetryNext]_telemetryVars => StreamInv'
<1> SUFFICES ASSUME TelemetryTypeOK, StreamInv, [TelemetryNext]_telemetryVars,
                    medium' = "stream", clean'
             PROVE  WithStream'
  BY DEF StreamInv
<1>1. CASE ByteArrives
  BY <1>1, ByteArrivesKeeps DEF StreamInv, ByteArrives, SendByte
<1>2. CASE ByteSpoilt
  BY <1>2 DEF ByteSpoilt
<1>3. CASE Reenable \/ UNCHANGED telemetryVars
  BY <1>3 DEF StreamInv, Reenable, telemetryVars, WithStream, InFrame, FalseStart
<1>4. CASE PollEbox
  BY <1>4 DEF PollEbox
<1>5. CASE AmpEvent
  BY <1>5 DEF StreamInv, AmpEvent, WithStream, InFrame, FalseStart
<1> QED BY <1>1, <1>2, <1>3, <1>4, <1>5 DEF TelemetryNext

\* Until a byte is lost or garbled, or a frame was sent that can be mistaken, what
\* is known of the amplifier is the frame under way or the one before, wherever in
\* a frame the bridge began to listen.
THEOREM NothingInventedHolds == TelemetrySpec => []NothingInvented
<1>1. TelemetryInit => StreamInv
  <2> SUFFICES ASSUME TelemetryInit, clean PROVE WithStream
    BY DEF StreamInv
  <2> QED BY DEF TelemetryInit, StreamInv, WithStream
<1>2. StreamInv => NothingInvented
  BY DEF NothingInvented, StreamInv, WithStream
<1> QED BY <1>1, StreamInvKept, <1>2, TelemetryTypeCorrect, PTL DEF TelemetrySpec

-----------------------------------------------------------------------------
(* The plug *)

LEMMA PlugTypesStart == PlugInit => PlugTypeOK
BY PlugAssumption DEF PlugInit, PlugTypeOK

LEMMA PlugTypesKept == PlugTypeOK /\ [PlugNext]_plugVars => PlugTypeOK'
<1> SUFFICES ASSUME PlugTypeOK, [PlugNext]_plugVars PROVE PlugTypeOK'
  OBVIOUS
<1> USE DEF PlugTypeOK, plugWorld
<1>1. CASE PollDue
  BY <1>1 DEF PollDue
<1>2. CASE Polled
  BY <1>2 DEF Polled
<1>3. CASE Synced
  BY <1>3 DEF Synced
<1>4. CASE ManualDone
  BY <1>4 DEF ManualDone
<1>5. CASE PlugEvent
  <2>1. plugEvents' \in 0..MaxPlugEvents
    BY <1>5, PlugAssumption DEF PlugEvent
  <2>2. mains' \in {"on", "off"} /\ manual' \in {"none", "on", "off"}
    BY <1>5 DEF PlugEvent
  <2>3. reachable' \in BOOLEAN /\ radioUp' \in BOOLEAN
    BY <1>5 DEF PlugEvent
  <2> QED BY <1>5, <2>1, <2>2, <2>3 DEF PlugEvent
<1>6. CASE UNCHANGED plugVars
  BY <1>6 DEF plugVars
<1> QED BY <1>1, <1>2, <1>3, <1>4, <1>5, <1>6 DEF PlugNext, PlugStep

\* Every variable of a plug keeps its type: its loop is parked nowhere else, and what
\* is read or switched is one of the two states.
THEOREM PlugTypeCorrect == PlugSpec => []PlugTypeOK
BY PlugTypesStart, PlugTypesKept, PTL DEF PlugSpec

-----------------------------------------------------------------------------
(* Radio panel *)

LEMMA Turning ==
    ASSUME NEW v \in Nat, NEW d
    PROVE  Stepped(v, d) \in Int /\ (Stepped(v, d) >= 0 => Stepped(v, d) \in Nat)
BY DEF Stepped

\* Whatever is asked for, there is a frame for it, which says no more than its
\* digits can hold.
LEMMA Coded ==
    ASSUME NEW v \in Nat
    PROVE  Encodings(v) # {} /\ Encodings(v) \subseteq Codes
<1>1. MaxCode \in Codes /\ 10 * MaxCode > MaxCode
  BY PanelAssumption DEF Codes
<1> QED BY <1>1 DEF Encodings

LEMMA Frames ==
    ASSUME NEW c \in Controls
    PROVE  /\ \A v \in Nat : At(c, v) \in Job
           /\ \A v \in Values : At(c, v) \in Report
           /\ \A v \in Codes : SetCommand(c, v) \in Command
           /\ GetCommand(c) \in Command
BY DEF At, SetCommand, GetCommand, Job, Report, Command

LEMMA OfFrames ==
    ASSUME NEW c \in Command
    PROVE  c.control \in Controls
BY DEF Command

LEMMA PanelNumbers ==
    /\ "freq" \in Controls
    /\ 0 \in Values /\ Values \subseteq Nat /\ Codes \subseteq Nat /\ Entries \subseteq Nat
BY PanelAssumption DEF Values, Codes, Entries

LEMMA PanelTypesKept == PanelTypeOK /\ [PanelNext]_panelVars => PanelTypeOK'
<1> SUFFICES ASSUME PanelTypeOK, [PanelNext]_panelVars PROVE PanelTypeOK'
  OBVIOUS
<1>0. /\ panelEvents \in 0..MaxPanelEvents
      /\ PanelEvent => panelEvents' \in 0..MaxPanelEvents
  BY PanelAssumption DEF PanelTypeOK, PanelEvent
<1>a. "freq" \in Controls
  BY PanelAssumption
<1> USE DEF PanelTypeOK, window, dial, panelCtl, bus
<1>1. CASE Edit
  BY <1>0, <1>1 DEF Edit
<1>2. CASE Tick
  BY <1>0, <1>a, <1>2 DEF Tick
<1>3. CASE RunJob
  <2>1. Head(jobs) \in Job /\ jobs' \in Seq(Job)
    BY <1>3, RestOfSequence DEF RunJob
  <2>2. Head(jobs).control \in Controls /\ Head(jobs).value \in Nat
    BY <2>1 DEF Job
  <2>3. PICK w \in Encodings(Head(jobs).value) :
          commands' = Append(commands, SetCommand(Head(jobs).control, w))
    BY <1>3 DEF RunJob
  <2>4. SetCommand(Head(jobs).control, w) \in Command
    BY <2>2, <2>3, Coded, Frames
  <2>5. commands' \in Seq(Command)
    BY <2>3, <2>4
  <2>6. view' \in [Controls -> Nat \cup {Unread}]
    BY <1>3, <2>2 DEF RunJob
  <2> QED BY <1>0, <1>3, <2>1, <2>5, <2>6 DEF RunJob
<1>4. CASE PollNext
  <2>1. GetCommand(asking) \in Command
    BY Frames
  <2>2. commands' \in Seq(Command) /\ asking' \in Controls
    BY <1>4, <2>1 DEF PollNext
  <2> QED BY <1>0, <1>4, <2>2 DEF PollNext
<1>5. CASE ReplyHandled
  <2>1. Head(replies) \in Report /\ replies' \in Seq(Report)
    BY <1>5, RestOfSequence DEF ReplyHandled
  <2>2. Head(replies).control \in Controls /\ Head(replies).value \in Nat
    BY <2>1, PanelNumbers DEF Report
  <2>3. view' \in [Controls -> Nat \cup {Unread}] /\ base' \in Nat \cup {Unread}
    BY <1>5, <2>2 DEF ReplyHandled
  <2> QED BY <1>0, <1>5, <2>1, <2>3 DEF ReplyHandled
<1>6. CASE Answer
  <2>1. Head(commands) \in Command /\ commands' \in Seq(Command)
    BY <1>6, RestOfSequence DEF Answer
  <2>2. Head(commands).control \in Controls
    BY <2>1, OfFrames
  <2> DEFINE said == At(Head(commands).control, rig[Head(commands).control])
  <2>3. said \in Report
    BY <2>2, Frames
  <2>5. replies' = replies \/ replies' = Append(replies, said)
    BY <1>6 DEF Answer
  <2>6. replies' \in Seq(Report)
    <3>1. Append(replies, said) \in Seq(Report)
      BY <2>3, AppendIs
    <3> QED BY <2>5, <3>1
  <2>4. rig' \in [Controls -> Values]
    BY <1>6, <2>2 DEF Answer
  <2> QED BY <1>0, <1>6, <2>1, <2>4, <2>6 DEF Answer
<1>7. CASE Refuse
  <2>1. commands' \in Seq(Command)
    BY <1>7, RestOfSequence DEF Refuse
  <2> QED BY <1>0, <1>7, <2>1 DEF Refuse
<1>8. ASSUME NEW d \in {"up", "down"}, StepFrequency(d) PROVE PanelTypeOK'
  <2> DEFINE v == Stepped(view["freq"], d)
             n == IF v < 0 THEN 0 ELSE v
  <2>1. view["freq"] \in Nat
    BY <1>8, <1>a DEF StepFrequency
  <2>2. n \in Nat
    BY <2>1, Turning
  <2>3. At("freq", n) \in Job
    BY <1>a, <2>2, Frames
  <2>4. jobs' = Append(jobs, At("freq", n))
    BY <1>8 DEF StepFrequency, Hand
  <2>5. jobs' \in Seq(Job)
    <3> HIDE DEF n
    <3> QED BY <2>3, <2>4
  <2> QED BY <1>0, <1>8, <2>5 DEF StepFrequency
<1>9. ASSUME NEW d \in {"up", "down"}, DialTurned(d) PROVE PanelTypeOK'
  <2> DEFINE v == Stepped(base, d)
  <2>1. base \in Nat
    BY <1>9 DEF DialTurned
  <2>2. CASE v >= 0
    <3>1. v \in Nat
      BY <2>1, <2>2, Turning
    <3>2. base' = v /\ dialOn' = dialOn
          /\ \E w \in Encodings(v) : commands' = Append(commands, SetCommand("freq", w))
      <4>1. ~(v < 0)
        BY <3>1
      <4> HIDE DEF v
      <4> QED BY <1>9, <4>1 DEF DialTurned, v
    <3> HIDE DEF v
    <3>3. PICK w \in Encodings(v) : commands' = Append(commands, SetCommand("freq", w))
      BY <3>2
    <3>4. SetCommand("freq", w) \in Command
      BY <1>a, <3>1, <3>3, Coded, Frames
    <3>5. commands' \in Seq(Command)
      BY <3>3, <3>4
    <3> QED BY <1>0, <1>9, <3>1, <3>2, <3>5 DEF DialTurned
  <2>3. CASE ~(v >= 0)
    <3>1. base' = Unread /\ dialOn' = FALSE /\ commands' = commands
      BY <1>9, <2>3 DEF DialTurned
    <3> QED BY <1>0, <1>9, <3>1 DEF DialTurned
  <2> QED BY <2>2, <2>3
<1>10. ASSUME NEW v \in Entries \cup {Typed}, FreqEntered(v) PROVE PanelTypeOK'
  <2>1. CASE v = Typed
    BY <1>0, <1>10, <2>1 DEF FreqEntered
  <2>2. CASE v \in Entries
    <3>1. At("freq", v) \in Job
      BY <1>a, <2>2, PanelNumbers, Frames
    <3>2. jobs' = jobs \/ jobs' = Append(jobs, At("freq", v))
      BY <1>10 DEF FreqEntered, Hand
    <3>3. Append(jobs, At("freq", v)) \in Seq(Job)
      BY <3>1, AppendIs
    <3>4. jobs' \in Seq(Job)
      BY <3>2, <3>3
    <3> QED BY <1>0, <1>10, <3>4 DEF FreqEntered
  <2> QED BY <2>1, <2>2
<1>11. ASSUME NEW c \in Controls, NEW v \in Values, Click(c, v) PROVE PanelTypeOK'
  <2>1. At(c, v) \in Job
    BY PanelNumbers, Frames
  <2>2. jobs' \in Seq(Job)
    BY <1>11, <2>1 DEF Click, Hand
  <2>3. editing' \in BOOLEAN
    BY <1>11 DEF Click
  <2> QED BY <1>0, <1>11, <2>2, <2>3 DEF Click
<1>12. ASSUME NEW c \in Controls, NEW v \in Values, Turn(c, v) PROVE PanelTypeOK'
  BY <1>0, <1>12 DEF Turn
<1>14. CASE DialSwitched
  BY <1>0, <1>14 DEF DialSwitched
<1>13. CASE UNCHANGED panelVars
  BY <1>0, <1>13 DEF panelVars
<1> QED BY <1>1, <1>2, <1>3, <1>4, <1>5, <1>6, <1>7, <1>8, <1>9, <1>10, <1>11, <1>12, <1>13,
           <1>14 DEF PanelNext

LEMMA PanelTypesStart == PanelInit => PanelTypeOK
<1> SUFFICES ASSUME PanelInit PROVE PanelTypeOK
  OBVIOUS
<1>1. view \in [Controls -> Nat \cup {Unread}] /\ base \in Nat \cup {Unread}
  BY DEF PanelInit
<1>2. jobs \in Seq(Job) /\ commands \in Seq(Command) /\ replies \in Seq(Report)
  BY DEF PanelInit
<1>3. panelEvents \in 0..MaxPanelEvents /\ asking \in Controls
  BY PanelAssumption DEF PanelInit
<1> QED BY <1>1, <1>2, <1>3 DEF PanelInit, PanelTypeOK

\* Every variable of a radio's panel keeps its type.  The panel has no upper limit,
\* so what it shows is any number; but the window never asks for a negative
\* frequency, the dial never sends one, no frame says what its ten digits cannot
\* hold, however large a number was typed or dialled, and the radio takes none but
\* its own values.
THEOREM PanelTypeCorrect == PanelSpec => []PanelTypeOK
BY PanelTypesStart, PanelTypesKept, PTL DEF PanelSpec

-----------------------------------------------------------------------------
(* Windows of devices *)

\* What can be written in a row.
LEMMA Rows ==
    /\ NoRow \in Row
    /\ \A l, c \in BOOLEAN, m \in Modes \cup {Unreported} :
          [listed |-> l, can |-> c, state |-> m] \in Row
    /\ \A r \in Row, b \in BOOLEAN : [r EXCEPT !.can = b] \in Row
    /\ \A r \in Row : {r.listed, r.can} \subseteq BOOLEAN /\ r.state \in Modes \cup {Unreported}
BY DEF NoRow, Row

LEMMA DisplayTypesKept == DisplayTypeOK /\ [DisplayNext]_displayVars => DisplayTypeOK'
<1> SUFFICES ASSUME DisplayTypeOK, [DisplayNext]_displayVars PROVE DisplayTypeOK'
  OBVIOUS
<1>0. changes < MaxPanelChanges /\ changes' = changes + 1 => changes' \in 0..MaxPanelChanges
  BY DisplayAssumption DEF DisplayTypeOK
<1> USE DEF DisplayTypeOK, world, device, polling, rowsShown
<1>1. CASE FetchDue
  BY <1>1 DEF FetchDue
<1>2. CASE ListDevices
  <2>1. answer' \in Row
    BY <1>2, Rows DEF ListDevices
  <2> QED BY <1>2, <2>1 DEF ListDevices
<1>3. CASE CanControl
  <2>1. answer' \in Row
    BY <1>3, Rows DEF CanControl
  <2> QED BY <1>3, <2>1 DEF CanControl
<1>4. CASE Fetched
  BY <1>4, Rows DEF Fetched
<1>5. CASE FetchFails
  BY <1>5, Rows DEF FetchFails
<1>6. CASE RedrawAmplifiers
  BY <1>6 DEF RedrawAmplifiers
<1>7. CASE RedrawSwitches
  <2>1. pressed' \subseteq Modes /\ touched' = FALSE /\ shownRow' \in Row
    BY <1>7, Rows DEF RedrawSwitches
  <2> QED BY <1>7, <2>1 DEF RedrawSwitches
<1>8. CASE Reports
  BY <1>8 DEF Reports
<1>9. CASE Around
  BY <1>0, <1>9 DEF Around, Change
<1>16. CASE QueryAgain
  BY <1>0, <1>16 DEF QueryAgain, Change
<1>17. CASE AnswerLost
  BY <1>0, <1>17 DEF AnswerLost, Change
<1>18. CASE OperatedByHand
  BY <1>0, <1>18 DEF OperatedByHand, Change
<1>19. CASE Configured
  BY <1>0, <1>19 DEF Configured, Change, StartAsks
<1>10. ASSUME NEW m \in Modes, ClickMode(m) PROVE DisplayTypeOK'
  BY <1>0, <1>10 DEF ClickMode, Ask, Change
<1>11. ASSUME NEW m \in Modes, ClickPort(m) PROVE DisplayTypeOK'
  BY <1>0, <1>11 DEF ClickPort, Ask, Change
<1>12. ASSUME NEW m \in Modes, Granted(m) PROVE DisplayTypeOK'
  BY <1>12 DEF Granted
<1>13. ASSUME NEW m \in Modes, SetMode(m) PROVE DisplayTypeOK'
  BY <1>13 DEF SetMode, Found
<1>14. ASSUME NEW m \in Modes, SelectsPort(m) PROVE DisplayTypeOK'
  BY <1>14 DEF SelectsPort, Found
<1>15. CASE UNCHANGED displayVars
  BY <1>15 DEF displayVars
<1> QED BY <1>1, <1>2, <1>3, <1>4, <1>5, <1>6, <1>7, <1>8, <1>9, <1>10, <1>11, <1>12,
           <1>13, <1>14, <1>15, <1>16, <1>17, <1>18, <1>19
        DEF DisplayNext, Polling, Redraw, Order, Outside

LEMMA DisplayTypesStart == DisplayInit => DisplayTypeOK
<1> SUFFICES ASSUME DisplayInit PROVE DisplayTypeOK
  OBVIOUS
<1>1. {answer, fetched, shownRow} \subseteq Row
  BY Rows DEF DisplayInit
<1>2. actual \in Modes /\ reported \in Modes \cup {Unreported}
  BY DEF DisplayInit, Modes
<1>3. changes \in 0..MaxPanelChanges
  BY DisplayAssumption DEF DisplayInit
<1>5. {serverUp, allowed, touched, answerDue, drifted} \subseteq BOOLEAN
  BY DEF DisplayInit, StartAsks
<1>4. clicks \in [Modes -> {"none", "sent", "granted"}] /\ pressed \subseteq Modes
  BY DEF DisplayInit
<1> QED BY <1>1, <1>2, <1>3, <1>4, <1>5 DEF DisplayInit, DisplayTypeOK

\* Every variable of the window of amplifiers and switches keeps its type.
THEOREM DisplayTypeCorrect == DisplaySpec => []DisplayTypeOK
BY DisplayTypesStart, DisplayTypesKept, PTL DEF DisplaySpec

-----------------------------------------------------------------------------
(* All of them *)

\* A step is one of the component that runs, and leaves the others' variables.
LEMMA ChannelsSteps ==
    [ChannelsNext]_allVars =>
        /\ [Next]_vars /\ [CatNext]_catVars /\ [PlugNext]_plugVars
        /\ [SwitchNext]_switchVars /\ [AudioNext]_audioVars /\ [PanelNext]_panelVars
        /\ [DisplayNext]_displayVars /\ [TelemetryNext]_telemetryVars
<1>1. ASSUME ChannelsNext
      PROVE  /\ [Next]_vars /\ [CatNext]_catVars /\ [PlugNext]_plugVars
             /\ [SwitchNext]_switchVars /\ [AudioNext]_audioVars /\ [PanelNext]_panelVars
             /\ [DisplayNext]_displayVars /\ [TelemetryNext]_telemetryVars
  BY <1>1 DEF ChannelsNext
<1>2. UNCHANGED allVars =>
          /\ [Next]_vars /\ [CatNext]_catVars /\ [PlugNext]_plugVars
          /\ [SwitchNext]_switchVars /\ [AudioNext]_audioVars /\ [PanelNext]_panelVars
          /\ [DisplayNext]_displayVars /\ [TelemetryNext]_telemetryVars
  BY DEF allVars
<1> QED BY <1>1, <1>2

LEMMA AudioRestTyped == AudioAtRest => AudioTypeOK
<1> SUFFICES ASSUME AudioAtRest PROVE AudioTypeOK
  OBVIOUS
<1>1. {row, asked, serverLink, clientLink} \subseteq Settings
  BY DEF AudioAtRest, Settings
<1>2. audioEvents \in 0..MaxAudioEvents
  BY AudioAssumption DEF AudioAtRest
<1>3. {peerKnown, ctl, notice, refetch, announcing} \subseteq BOOLEAN
  BY DEF AudioAtRest
<1>4. haste \in Hastes
  BY DEF AudioAtRest, Hastes
<1> QED BY <1>1, <1>2, <1>3, <1>4 DEF AudioAtRest, AudioTypeOK

LEMMA PanelRestTyped == PanelAtRest => PanelTypeOK
<1> SUFFICES ASSUME PanelAtRest PROVE PanelTypeOK
  OBVIOUS
<1>1. 0 \in Values /\ "freq" \in Controls /\ panelEvents \in 0..MaxPanelEvents
  BY PanelAssumption DEF PanelAtRest, Values
<1>2. rig \in [Controls -> Values] /\ view \in [Controls -> Nat \cup {Unread}]
  BY <1>1 DEF PanelAtRest
<1>3. jobs \in Seq(Job) /\ commands \in Seq(Command) /\ replies \in Seq(Report)
  BY DEF PanelAtRest
<1> QED BY <1>1, <1>2, <1>3 DEF PanelAtRest, PanelTypeOK

LEMMA DisplayRestTyped == DisplayAtRest => DisplayTypeOK
<1> SUFFICES ASSUME DisplayAtRest PROVE DisplayTypeOK
  OBVIOUS
<1>1. actual \in Modes /\ reported \in Modes \cup {Unreported}
  BY DEF DisplayAtRest, Modes
<1>2. Truth \in Row
  BY <1>1, Rows DEF Truth, DisplayAtRest
<1>3. {answer, fetched, shownRow} \subseteq Row
  BY <1>2, Rows DEF DisplayAtRest
<1>4. changes \in 0..MaxPanelChanges
  BY DisplayAssumption DEF DisplayAtRest
<1>5. {serverUp, allowed, touched, answerDue, drifted} \subseteq BOOLEAN
  BY DEF DisplayAtRest
<1>6. clicks \in [Modes -> {"none", "sent", "granted"}] /\ pressed \subseteq Modes
  BY DEF DisplayAtRest
<1>7. gear \in Gears /\ presence = "served" /\ fetch = "sleep"
  BY DEF DisplayAtRest, Gears
<1> QED BY <1>1, <1>3, <1>4, <1>5, <1>6, <1>7 DEF DisplayTypeOK

LEMMA TelemetryRestTyped == TelemetryAtRest => TelemetryTypeOK
<1> SUFFICES ASSUME TelemetryAtRest PROVE TelemetryTypeOK
  OBVIOUS
<1>1. buffer \in Seq(Bytes) /\ Len(buffer) < FrameLength
  BY DEF TelemetryAtRest, FrameLength
<1>2. {linkUp, enabled, fault, clean} \subseteq BOOLEAN
  BY DEF TelemetryAtRest
<1>3. upsets \in 0..MaxUpsets /\ sent \in 0..FrameLength - 1
  BY TelemetryAssumption DEF TelemetryAtRest, FrameLength
<1>4. {reading, sending, previous} \subseteq Readings
  BY RestAssumption DEF TelemetryAtRest
<1> QED BY <1>1, <1>2, <1>3, <1>4 DEF TelemetryAtRest, TelemetryTypeOK

\* In the specification that the run checks, where one component runs and the
\* others rest, all of them keep their types, for any values of the constants.
THEOREM ChannelsTypeCorrect == ChannelsSpec => []ChannelsTypeOK
<1>1. ChannelsInit => /\ Init /\ CatInit /\ PlugInit /\ SwitchInit
                      /\ AudioInit \/ AudioAtRest
                      /\ PanelInit \/ PanelAtRest
                      /\ DisplayInit \/ DisplayAtRest
                      /\ TelemetryInit \/ TelemetryAtRest
  BY DEF ChannelsInit, PttAtRest, CatAtRest, PlugAtRest, SwitchAtRest
<1>2. ChannelsInit => /\ CatTypeOK /\ PlugTypeOK
                      /\ AudioTypeOK /\ PanelTypeOK /\ DisplayTypeOK /\ TelemetryTypeOK
  BY <1>1, CatTypesStart, PlugTypesStart, AudioTypesStart, AudioRestTyped, PanelTypesStart,
     PanelRestTyped, DisplayTypesStart, DisplayRestTyped, TelemetryTypesStart,
     TelemetryRestTyped
<1>3. ChannelsSpec => [](TypeOK /\ SwitchTypeOK)
  BY <1>1, ChannelsSteps, ExternalTypeCorrect, SwitchTypeCorrect, PTL
     DEF ChannelsSpec, Spec, SwitchSpec
<1>4. ChannelsSpec => [](CatTypeOK /\ PlugTypeOK)
  BY <1>2, ChannelsSteps, CatTypesKept, PlugTypesKept, PTL DEF ChannelsSpec
<1>5. ChannelsSpec => [](AudioTypeOK /\ PanelTypeOK)
  BY <1>2, ChannelsSteps, AudioTypesKept, PanelTypesKept, PTL DEF ChannelsSpec
<1>6. ChannelsSpec => [](DisplayTypeOK /\ TelemetryTypeOK)
  BY <1>2, ChannelsSteps, DisplayTypesKept, TelemetryTypesKept, PTL DEF ChannelsSpec
<1> QED BY <1>3, <1>4, <1>5, <1>6, PTL DEF ChannelsTypeOK

\* What the run checks in every state of it holds for any values of the constants,
\* if there is a station at all.
THEOREM ChannelsAlwaysSafe ==
    ASSUME Stations # {}
    PROVE  ChannelsSpec => [](/\ NotLeftKeyed /\ FollowedWithoutTail /\ CatInOrder
                              /\ ShownIsSelected /\ LinksAgree /\ NothingInvented)
<1>1. ChannelsInit => /\ Init /\ CatInit /\ SwitchInit
                      /\ AudioInit \/ AudioAtRest
                      /\ TelemetryInit \/ TelemetryAtRest
  BY DEF ChannelsInit, PttAtRest, CatAtRest, SwitchAtRest
<1>2. AudioInit \/ AudioAtRest => AudioInv
  BY AudioTypesStart, AudioRestTyped
     DEF AudioInv, AudioInit, AudioAtRest, NewsUnderWay, NoLink
<1>3. TelemetryInit \/ TelemetryAtRest => StreamInv
  <2>1. TelemetryInit /\ clean => WithStream
    BY DEF TelemetryInit, WithStream
  <2> QED BY <2>1 DEF StreamInv, TelemetryAtRest
<1>4. CatInit => LatestGetsReplies /\ NoneRefused
  BY DEF CatInit, LatestGetsReplies, NoneRefused
<1>5. ChannelsSpec => [](NotLeftKeyed /\ FollowedWithoutTail /\ ShownIsSelected)
  BY <1>1, ChannelsSteps, NeverLeftKeyed, AlwaysFollowed, ShownIsAlwaysSelected, PTL
     DEF ChannelsSpec, Spec, SwitchSpec
<1>6. ChannelsSpec => [](CatTypeOK /\ AudioTypeOK /\ TelemetryTypeOK)
  BY ChannelsTypeCorrect, PTL DEF ChannelsTypeOK
<1>7. LatestGetsReplies /\ NoneRefused => CatInOrder
  BY DEF CatInOrder, ComPortReleased, NoneRefused
<1>8. ChannelsSpec => []CatInOrder
  BY <1>1, <1>4, <1>6, <1>7, ChannelsSteps, LatestGetsRepliesKept, NoneRefusedKept, PTL
     DEF ChannelsSpec
<1>9. AudioInv => LinksAgree
  BY DEF AudioInv, AudioTypeOK, LinksAgree, Agree, NewsUnderWay, NoLink
<1>10. ChannelsSpec => []LinksAgree
  BY <1>1, <1>2, <1>6, <1>9, ChannelsSteps, AudioInvKept, PTL DEF ChannelsSpec
<1>11. StreamInv => NothingInvented
  BY DEF NothingInvented, StreamInv, WithStream
<1>12. ChannelsSpec => []NothingInvented
  BY <1>1, <1>3, <1>6, <1>11, ChannelsSteps, StreamInvKept, PTL DEF ChannelsSpec
<1> QED BY <1>5, <1>8, <1>10, <1>12, PTL
=============================================================================
