---------------------------- MODULE ClientProofs ----------------------------
(***************************************************************************)
(* Proofs about the client's radio list and its CW sources, for any values *)
(* of their constants.                                                     *)
(***************************************************************************)
EXTENDS RadioList, CwSources, SequenceLemmas

-----------------------------------------------------------------------------
(* Radio list *)

\* A pair is created for a radio.
CreatesForRadio == \A o \in Refreshes : at[o] = "create" => making[o] \in Names

LEMMA ListTypes == ListSpec => [](ListTypeOK /\ CreatesForRadio)
<1>1. ListInit => ListTypeOK /\ CreatesForRadio
  BY DEF ListInit, ListTypeOK, Places, Lists, Off, CreatesForRadio
<1>2. ListTypeOK /\ CreatesForRadio /\ [ListNext]_listVars => ListTypeOK' /\ CreatesForRadio'
  <2> SUFFICES ASSUME ListTypeOK, CreatesForRadio, [ListNext]_listVars
               PROVE  ListTypeOK' /\ CreatesForRadio'
    OBVIOUS
  <2> USE DEF ListTypeOK, Move, Places, CreatesForRadio
  <2>1. ASSUME NEW names \in SUBSET Names, EndRelays(names)
        PROVE  catRelays' \in [Names -> Refreshes \cup {Absent}] /\ running' \in [Relays -> 0..2]
    BY <2>1 DEF EndRelays, Off
  <2>2. ASSUME NEW o \in Refreshes, NEW n \in Names, StartRelay(o, n)
        PROVE  catRelays' \in [Names -> Refreshes \cup {Absent}] /\ running' \in [Relays -> 0..2]
    BY <2>2 DEF StartRelay, Relays, Lists
  <2>3. ASSUME NEW o \in Refreshes, BeginRefresh(o) PROVE ListTypeOK' /\ CreatesForRadio'
    BY <2>1, <2>3 DEF BeginRefresh, relayVars
  <2>4. ASSUME NEW o \in Refreshes, Fetched(o) PROVE ListTypeOK' /\ CreatesForRadio'
    <3>1. PICK list \in [Names -> IF "moves" \in weather THEN 0..2 ELSE 0..1] :
             /\ rows' = [rows EXCEPT ![o] = list]
             /\ watched' = list
             /\ EndRelays({n \in Names : list[n] = Off})
      BY <2>4 DEF Fetched
    <3>2. list \in Lists
      BY DEF Lists
    <3> QED BY <2>1, <2>4, <3>1, <3>2 DEF Fetched
  <2>5. ASSUME NEW o \in Refreshes, FoundDriver(o) PROVE ListTypeOK' /\ CreatesForRadio'
    BY <2>5 DEF FoundDriver, relayVars
  <2>6. ASSUME NEW o \in Refreshes, NEW n \in Names, NextRadio(o, n)
        PROVE  ListTypeOK' /\ CreatesForRadio'
    BY <2>2, <2>6 DEF NextRadio, relayVars
  <2>7. ASSUME NEW o \in Refreshes, PairMade(o) PROVE ListTypeOK' /\ CreatesForRadio'
    BY <2>2, <2>7 DEF PairMade, relayVars, Relays
  <2>8. ASSUME NEW o \in Refreshes, RefreshEnds(o) PROVE ListTypeOK' /\ CreatesForRadio'
    BY <2>8 DEF RefreshEnds, relayVars
  <2>9. CASE UNCHANGED listVars
    BY <2>9 DEF listVars, progress, relayVars
  <2> QED BY <2>3, <2>4, <2>5, <2>6, <2>7, <2>8, <2>9 DEF ListNext
<1> QED BY <1>1, <1>2, PTL DEF ListSpec

\* Every variable of the radio list keeps its type, and no pair is installed for
\* no radio.
THEOREM ListTypeCorrect == ListSpec => []ListTypeOK
BY ListTypes, PTL

\* Without overlap one refresh at most is under way, and nobody but itself gives
\* the radio whose pair it is creating a relay or a pair.
OneRefresh ==
    /\ \A o \in Refreshes : at[o] \notin {"new", "done"} =>
          \A u \in Refreshes \ {o} : at[u] \in {"new", "done"}
    /\ \A o \in Refreshes : at[o] = "create" =>
          catRelays[making[o]] = Absent /\ comPorts[making[o]] = Absent

LEMMA OneRefreshKept ==
    ASSUME ListTypeOK, CreatesForRadio, "overlap" \notin weather, OneRefresh, RelaysAreKnown,
           [ListNext]_listVars
    PROVE  OneRefresh' /\ RelaysAreKnown'
<1> USE RadioListAssumption DEF ListTypeOK, CreatesForRadio, OneRefresh, RelaysAreKnown, Move,
                                Places, Relays, Off
<1>1. ASSUME NEW o \in Refreshes, BeginRefresh(o) PROVE OneRefresh' /\ RelaysAreKnown'
  BY <1>1 DEF BeginRefresh, RefreshesIdle, EndRelays, relayVars
<1>2. ASSUME NEW o \in Refreshes, Fetched(o) PROVE OneRefresh' /\ RelaysAreKnown'
  BY <1>2 DEF Fetched, EndRelays
<1>3. ASSUME NEW o \in Refreshes, FoundDriver(o) PROVE OneRefresh' /\ RelaysAreKnown'
  BY <1>3 DEF FoundDriver, relayVars
<1>4. ASSUME NEW o \in Refreshes, NEW n \in Names, NextRadio(o, n)
      PROVE  OneRefresh' /\ RelaysAreKnown'
  BY <1>4 DEF NextRadio, StartRelay, relayVars
<1>5. ASSUME NEW o \in Refreshes, PairMade(o) PROVE OneRefresh' /\ RelaysAreKnown'
  BY <1>5 DEF PairMade, StartRelay, relayVars
<1>6. ASSUME NEW o \in Refreshes, RefreshEnds(o) PROVE OneRefresh' /\ RelaysAreKnown'
  BY <1>6 DEF RefreshEnds, relayVars
<1>7. CASE UNCHANGED listVars
  BY <1>7 DEF listVars, progress, relayVars
<1> QED BY <1>1, <1>2, <1>3, <1>4, <1>5, <1>6, <1>7 DEF ListNext

\* Where radios do not move either, the list a refresh works on is the one the
\* watchers were made from.
ListIsWatched ==
    /\ \A n \in Names : watched[n] \in 0..1
    /\ \A o \in Refreshes : at[o] \in {"find", "relays", "create"} => rows[o] = watched
    /\ \A o \in Refreshes : at[o] = "create" => rows[o][making[o]] # Off

\* A relay that is started for a listed radio connects to the port watched.
LEMMA WatchedStart ==
    ASSUME ListTypeOK, RelayIsWatched, UNCHANGED <<weather, watched>>,
           NEW o \in Refreshes, NEW n \in Names, StartRelay(o, n),
           rows[o] = watched, rows[o][n] # Off
    PROVE  RelayIsWatched'
<1> USE DEF ListTypeOK, RelayIsWatched, Relays
<1>1. catRelays' = [catRelays EXCEPT ![n] = o] /\ running' = [running EXCEPT ![<<o, n>>] = watched[n]]
  BY DEF StartRelay
<1>2. running'[<<catRelays'[n], n>>] = watched'[n] /\ watched'[n] # Off
  BY <1>1
<1>3. ASSUME weather = {}, NEW m \in Names \ {n}, catRelays[m] # Absent
      PROVE  /\ catRelays'[m] = catRelays[m]
             /\ running'[<<catRelays[m], m>>] = running[<<catRelays[m], m>>]
  BY <1>1, <1>3
<1> QED BY <1>1, <1>2, <1>3

LEMMA ListIsWatchedKept ==
    ASSUME ListTypeOK, CreatesForRadio, weather = {}, OneRefresh, RelayIsWatched, ListIsWatched,
           [ListNext]_listVars
    PROVE  RelayIsWatched' /\ ListIsWatched'
<1> USE RadioListAssumption DEF ListTypeOK, CreatesForRadio, OneRefresh, RelayIsWatched,
                                ListIsWatched, Move, Places, Relays, Off, Lists
<1>1. ASSUME NEW o \in Refreshes, BeginRefresh(o) PROVE RelayIsWatched' /\ ListIsWatched'
  BY <1>1 DEF BeginRefresh, RefreshesIdle, EndRelays, relayVars
<1>2. ASSUME NEW o \in Refreshes, Fetched(o) PROVE RelayIsWatched' /\ ListIsWatched'
  <2>1. PICK list \in [Names -> 0..1] : /\ rows' = [rows EXCEPT ![o] = list]
                                        /\ watched' = list
                                        /\ EndRelays({n \in Names : list[n] = Off})
    BY <1>2 DEF Fetched
  <2>2. ListIsWatched'
    BY <1>2, <2>1 DEF Fetched
  <2>3. RelayIsWatched'
    BY <1>2, <2>1 DEF Fetched, EndRelays
  <2> QED BY <2>2, <2>3
<1>3. ASSUME NEW o \in Refreshes, FoundDriver(o) PROVE RelayIsWatched' /\ ListIsWatched'
  BY <1>3 DEF FoundDriver, relayVars
<1>4. ASSUME NEW o \in Refreshes, NEW n \in Names, NextRadio(o, n)
      PROVE  RelayIsWatched' /\ ListIsWatched'
  <2>1. UNCHANGED <<watched, rows>> /\ rows[o] = watched
    BY <1>4 DEF NextRadio
  <2>2. ListIsWatched'
    BY <1>4, <2>1 DEF NextRadio, relayVars
  <2>3. CASE UNCHANGED relayVars
    BY <2>1, <2>2, <2>3 DEF relayVars
  <2>4. CASE StartRelay(o, n) /\ rows[o][n] # Off
    BY <2>1, <2>2, <2>4, WatchedStart
  <2> QED BY <1>4, <2>3, <2>4 DEF NextRadio
<1>5. ASSUME NEW o \in Refreshes, PairMade(o) PROVE RelayIsWatched' /\ ListIsWatched'
  <2>1. UNCHANGED <<watched, rows>> /\ rows[o] = watched /\ rows[o][making[o]] # Off
        /\ making[o] \in Names
    BY <1>5 DEF PairMade
  <2>2. ListIsWatched'
    BY <1>5, <2>1 DEF PairMade, relayVars
  <2>3. CASE UNCHANGED relayVars
    BY <2>1, <2>2, <2>3 DEF relayVars
  <2>4. CASE StartRelay(o, making[o])
    BY <2>1, <2>2, <2>4, WatchedStart
  <2> QED BY <1>5, <2>3, <2>4 DEF PairMade
<1>6. ASSUME NEW o \in Refreshes, RefreshEnds(o) PROVE RelayIsWatched' /\ ListIsWatched'
  BY <1>6 DEF RefreshEnds, relayVars
<1>7. CASE UNCHANGED listVars
  BY <1>7 DEF listVars, progress, relayVars
<1> QED BY <1>1, <1>2, <1>3, <1>4, <1>5, <1>6, <1>7 DEF ListNext

\* What makes ListInOrder inductive.
ListInv ==
    /\ "overlap" \notin weather => OneRefresh
    /\ RelaysAreKnown
    /\ weather = {} => ListIsWatched
    /\ RelayIsWatched

\* While refreshes do not overlap the relays that run are those the session
\* knows; if no radio moves either, each is watched and on the listed port.
THEOREM ListInOrderHolds == ListSpec => []ListInOrder
<1>1. ListInit => ListInv
  BY DEF ListInit, ListInv, OneRefresh, RelaysAreKnown, ListIsWatched, RelayIsWatched, Off
<1>2. ListTypeOK /\ CreatesForRadio /\ ListInv /\ [ListNext]_listVars => ListInv'
  <2> SUFFICES ASSUME ListTypeOK, CreatesForRadio, ListInv, [ListNext]_listVars PROVE ListInv'
    OBVIOUS
  <2>1. weather' = weather
    BY DEF ListNext, listVars, BeginRefresh, Fetched, FoundDriver, NextRadio, PairMade,
           RefreshEnds
  <2>2. CASE "overlap" \in weather
    BY <2>1, <2>2 DEF ListInv, RelaysAreKnown, RelayIsWatched
  <2>3. CASE "overlap" \notin weather /\ weather # {}
    BY <2>1, <2>3, OneRefreshKept DEF ListInv, RelayIsWatched
  <2>4. CASE weather = {}
    BY <2>1, <2>4, OneRefreshKept, ListIsWatchedKept DEF ListInv
  <2> QED BY <2>2, <2>3, <2>4
<1>3. ListInv => ListInOrder
  BY DEF ListInv, ListInOrder
<1> QED BY <1>1, <1>2, <1>3, ListTypes, PTL DEF ListSpec

-----------------------------------------------------------------------------
(* Flattening *)

\* There is one for every sequence of sequences.
Segment == [on : BOOLEAN, dits : {1, 3, 7}]

\* Segments that begin with an element, and no two gaps of which meet.
Spaced(s) ==
    /\ s # <<>> => s[1].on
    /\ \A i \in 1..Len(s) - 1 : s[i].on \/ s[i + 1].on

\* The second is asked only of texts whose characters all have a code.
Playable(s, strictly) == s \in Seq(Segment) /\ (strictly => Spaced(s))

\* Joining keeps it.
LEMMA JoinPlayable ==
    ASSUME NEW strictly \in BOOLEAN, NEW r, NEW s, Playable(r, strictly), Playable(s, strictly)
    PROVE  Playable(r \o s, strictly)
<1>1. r \in Seq(Segment) /\ s \in Seq(Segment) /\ r \o s \in Seq(Segment)
  BY DEF Playable
<1>2. /\ Len(r) \in Nat /\ Len(s) \in Nat /\ Len(r \o s) = Len(r) + Len(s)
      /\ \A i \in 1..Len(r) + Len(s) :
            (r \o s)[i] = IF i <= Len(r) THEN r[i] ELSE s[i - Len(r)]
  BY <1>1
<1>3. ASSUME strictly PROVE Spaced(r \o s)
  <2>1. Spaced(r) /\ Spaced(s)
    BY <1>3 DEF Playable
  <2>2. ASSUME r \o s # <<>> PROVE (r \o s)[1].on
    <3>1. CASE r = <<>>
      <4>1. r \o s = s
        BY <1>1, <3>1
      <4> QED BY <2>1, <2>2, <4>1 DEF Spaced
    <3>2. CASE r # <<>>
      <4>1. 1 <= Len(r) /\ 1 \in 1..Len(r) + Len(s)
        BY <1>1, <1>2, <3>2
      <4>2. (r \o s)[1] = r[1]
        BY <1>2, <4>1
      <4> QED BY <2>1, <3>2, <4>2 DEF Spaced
    <3> QED BY <3>1, <3>2
  <2>3. ASSUME NEW i \in 1..Len(r \o s) - 1
        PROVE  (r \o s)[i].on \/ (r \o s)[i + 1].on
    <3>1. i \in 1..Len(r) + Len(s) /\ i + 1 \in 1..Len(r) + Len(s)
      BY <1>2, <2>3
    <3>2. CASE i < Len(r)
      <4>1. i \in 1..Len(r) - 1 /\ (r \o s)[i] = r[i] /\ (r \o s)[i + 1] = r[i + 1]
        BY <1>2, <3>1, <3>2
      <4> QED BY <2>1, <4>1 DEF Spaced
    <3>3. CASE i = Len(r)
      <4>1. (r \o s)[i + 1] = s[i + 1 - Len(r)] /\ i + 1 - Len(r) = 1
        BY <1>2, <3>1, <3>3
      <4>2. s # <<>>
        BY <1>1, <1>2, <2>3, <3>3
      <4> QED BY <2>1, <4>1, <4>2 DEF Spaced
    <3>4. CASE i > Len(r)
      <4> DEFINE j == i - Len(r)
      <4>1. j \in 1..Len(s) - 1
        BY <1>2, <2>3, <3>4
      <4>2. (r \o s)[i] = s[j] /\ (r \o s)[i + 1] = s[i + 1 - Len(r)] /\ i + 1 - Len(r) = j + 1
        BY <1>2, <3>1, <3>4
      <4> HIDE DEF j
      <4> QED BY <2>1, <4>1, <4>2 DEF Spaced
    <3> QED BY <1>2, <3>2, <3>3, <3>4
  <2> QED BY <2>2, <2>3 DEF Spaced
<1> QED BY <1>1, <1>3 DEF Playable

\* Flattening keeps it, and ends as the last of its members does.
LEMMA FlattenPlayable ==
    ASSUME NEW strictly \in BOOLEAN, NEW ss \in Seq(Seq(Segment)),
           \A i \in 1..Len(ss) : Playable(ss[i], strictly)
    PROVE  /\ Playable(FlattenSeq(ss), strictly)
           /\ Len(ss) > 0 =>
                 \E r \in Seq(Segment) : FlattenSeq(ss) = r \o ss[Len(ss)]
<1>1. Len(ss) \in Nat
  OBVIOUS
<1>2. CASE Len(ss) = 0
  <2>1. ss = <<>> /\ FlattenSeq(ss) = <<>>
    BY <1>2 DEF FlattenSeq
  <2>2. Playable(<<>>, strictly)
    BY DEF Playable, Spaced
  <2> QED BY <1>2, <2>1, <2>2
<1>3. CASE Len(ss) # 0
  <2> DEFINE f == CHOOSE f : Flattens(f, ss)
  <2>1. Flattens(f, ss)
    BY FlattensSome
  <2>2. FlattenSeq(ss) = f[Len(ss)]
    BY <1>3 DEF FlattenSeq, Flattens
  <2> HIDE DEF f
  <2>3. \A i \in 1..Len(ss) : f[i] = IF i = 1 THEN ss[i] ELSE f[i - 1] \o ss[i]
    BY <2>1 DEF Flattens
  <2> DEFINE Bad == {n \in Nat : n \in 1..Len(ss) /\ ~Playable(f[n], strictly)}
  <2>4. ASSUME NEW n \in Bad, \A k \in Bad : n <= k PROVE FALSE
    <3>1. n \in 1..Len(ss) /\ ~Playable(f[n], strictly) /\ n \in Nat
      OBVIOUS
    <3>2. n # 1
      BY <3>1, <2>3
    <3>3. n - 1 \in 1..Len(ss) /\ n - 1 \in Nat /\ ~(n <= n - 1)
      BY <3>1, <3>2
    <3>4. Playable(f[n - 1], strictly)
      BY <2>4, <3>3
    <3>5. f[n] = f[n - 1] \o ss[n]
      BY <2>3, <3>1, <3>2
    <3>6. Playable(ss[n], strictly)
      BY <3>1
    <3> QED BY <3>1, <3>4, <3>5, <3>6, JoinPlayable
  <2>5. Bad = {}
    BY <2>4, LeastNumber
  <2>6. \A n \in 1..Len(ss) : Playable(f[n], strictly)
    BY <1>1, <2>5
  <2>7. \E r \in Seq(Segment) : f[Len(ss)] = r \o ss[Len(ss)]
    <3>1. CASE Len(ss) = 1
      <4>0. 1 \in 1..Len(ss)
        BY <3>1
      <4>1. ss[1] \in Seq(Segment)
        BY <4>0 DEF Playable
      <4>2. ss[1] = <<>> \o ss[1]
        BY <4>1
      <4>3. <<>> \in Seq(Segment) /\ f[1] = ss[1]
        BY <2>3, <3>1
      <4> QED BY <3>1, <4>2, <4>3
    <3>2. CASE Len(ss) # 1
      <4>1. Len(ss) - 1 \in 1..Len(ss) /\ Len(ss) \in 1..Len(ss)
        <5>1. \A n \in Nat : n # 0 /\ n # 1 => n - 1 \in 1..n /\ n \in 1..n
          OBVIOUS
        <5> QED BY <1>1, <1>3, <3>2, <5>1
      <4>2. f[Len(ss) - 1] \in Seq(Segment)
        BY <2>6, <4>1 DEF Playable
      <4>3. f[Len(ss)] = f[Len(ss) - 1] \o ss[Len(ss)]
        BY <2>3, <3>2, <4>1
      <4> QED BY <4>2, <4>3
    <3> QED BY <3>1, <3>2
  <2>8. Len(ss) \in 1..Len(ss)
    BY <1>1, <1>3
  <2> QED BY <2>2, <2>6, <2>7, <2>8
<1> QED BY <1>2, <1>3

-----------------------------------------------------------------------------
(* Text *)

\* The codes are short sequences of dits and dahs.
LEMMA CodeTypes ==
    ASSUME NEW c
    PROVE  /\ Code(c) \in Seq({1, 3})
           /\ c \in {"E", "A"} => Code(c) # <<>>
           /\ c \notin {"E", "A"} => Code(c) = <<>>
<1>1. CASE c = "E"
  BY <1>1 DEF Code
<1>2. CASE c = "A"
  BY <1>2 DEF Code
<1>3. CASE c \notin {"E", "A"}
  BY <1>3 DEF Code
<1> QED BY <1>1, <1>2, <1>3

\* A gap may follow what ends with the key down.
LEMMA GapPlayable ==
    ASSUME NEW strictly \in BOOLEAN, NEW s, Playable(s, strictly), NEW n \in {1, 3, 7},
           strictly => Len(s) > 0 /\ s[Len(s)].on
    PROVE  Playable(s \o Gap(n), strictly)
<1> DEFINE gap == [on |-> FALSE, dits |-> n]
<1>1. gap \in Segment /\ Gap(n) = <<gap>>
  BY DEF Gap, Segment
<1> HIDE DEF gap
<1>2. s \in Seq(Segment) /\ Len(s) \in Nat
  BY DEF Playable
<1>3. /\ s \o <<gap>> \in Seq(Segment) /\ Len(s \o <<gap>>) = Len(s) + 1
      /\ \A i \in 1..Len(s) : (s \o <<gap>>)[i] = s[i]
  BY <1>1, <1>2
<1>4. ASSUME strictly PROVE Spaced(s \o <<gap>>)
  <2>1. Len(s) > 0 /\ s[Len(s)].on /\ Spaced(s)
    BY <1>4 DEF Playable
  <2>2. s # <<>> /\ (s \o <<gap>>)[1].on
    BY <1>2, <1>3, <2>1 DEF Spaced
  <2>3. ASSUME NEW i \in 1..Len(s \o <<gap>>) - 1
        PROVE  (s \o <<gap>>)[i].on \/ (s \o <<gap>>)[i + 1].on
    <3>1. i \in 1..Len(s) /\ (s \o <<gap>>)[i] = s[i]
      BY <1>2, <1>3
    <3>2. CASE i = Len(s)
      BY <2>1, <3>1, <3>2
    <3>3. CASE i # Len(s)
      <4>1. i \in 1..Len(s) - 1 /\ i + 1 \in 1..Len(s)
        BY <1>2, <3>1, <3>3
      <4> QED BY <1>3, <2>1, <3>1, <4>1 DEF Spaced
    <3> QED BY <3>2, <3>3
  <2> QED BY <2>2, <2>3 DEF Spaced
<1> QED BY <1>1, <1>3, <1>4 DEF Playable

\* What one element contributes.
LEMMA StrokePlayable ==
    ASSUME NEW strictly \in BOOLEAN, NEW n \in {1, 3}, NEW p \in BOOLEAN
    PROVE  /\ Playable(<<On(n)>> \o When(p, Gap(1)), strictly)
           /\ ~p => <<On(n)>> \o When(p, Gap(1)) = <<On(n)>>
<1>1. On(n) \in Segment /\ On(n).on
  BY DEF On, Segment
<1>2. Playable(<<On(n)>>, strictly)
  BY <1>1 DEF Playable, Spaced
<1>3. CASE p
  <2>1. Len(<<On(n)>>) = 1 /\ <<On(n)>>[1] = On(n)
    OBVIOUS
  <2>2. Playable(<<On(n)>> \o Gap(1), strictly)
    BY <1>1, <1>2, <2>1, GapPlayable
  <2> QED BY <1>3, <2>2 DEF When
<1>4. CASE ~p
  <2>1. <<On(n)>> \o When(p, Gap(1)) = <<On(n)>>
    BY <1>4 DEF When
  <2> QED BY <1>2, <2>1
<1> QED BY <1>3, <1>4

\* The elements of a letter begin and end with the key down.
LEMMA ElementsPlayable ==
    ASSUME NEW strictly \in BOOLEAN, NEW c
    PROVE  /\ Playable(Elements(c), strictly)
           /\ Code(c) = <<>> => Elements(c) = <<>>
           /\ Code(c) # <<>> => Len(Elements(c)) > 0 /\ Elements(c)[Len(Elements(c))].on
<1> DEFINE code == Code(c)
           ss == [e \in DOMAIN code |-> <<On(code[e])>> \o When(e < Len(code), Gap(1))]
<1>1. code \in Seq({1, 3}) /\ Len(code) \in Nat /\ DOMAIN code = 1..Len(code)
  BY CodeTypes
<1>2. Elements(c) = FlattenSeq(ss)
  BY DEF Elements
<1> HIDE DEF code
<1>3. \A e \in 1..Len(code) : Playable(ss[e], strictly) /\ ss[e] \in Seq(Segment)
  <2> SUFFICES ASSUME NEW e \in 1..Len(code)
               PROVE  Playable(ss[e], strictly) /\ ss[e] \in Seq(Segment)
    OBVIOUS
  <2> DEFINE more == e < Len(code)
  <2>1. ss[e] = <<On(code[e])>> \o When(more, Gap(1)) /\ code[e] \in {1, 3} /\ more \in BOOLEAN
    BY <1>1
  <2> HIDE DEF more, ss
  <2> QED BY <2>1, StrokePlayable DEF Playable
<1>4. ss \in Seq(Seq(Segment)) /\ Len(ss) = Len(code)
  <2>1. ss \in [1..Len(code) -> Seq(Segment)]
    BY <1>1, <1>3
  <2> QED BY <1>1, <2>1, FunctionIsSeq
<1>5. Len(code) > 0 => ss[Len(code)] = <<On(code[Len(code)])>>
  <2> SUFFICES ASSUME Len(code) > 0 PROVE ss[Len(code)] = <<On(code[Len(code)])>>
    OBVIOUS
  <2> DEFINE e == Len(code)
             more == e < Len(code)
  <2>1. ss[e] = <<On(code[e])>> \o When(more, Gap(1)) /\ code[e] \in {1, 3} /\ ~more /\ more \in BOOLEAN
    BY <1>1
  <2> HIDE DEF more, ss
  <2> QED BY <2>1, StrokePlayable
<1>6. Len(code) > 0 => code[Len(code)] \in {1, 3}
  BY <1>1
<1> HIDE DEF ss
<1>7. Playable(Elements(c), strictly)
  BY <1>1, <1>2, <1>3, <1>4, FlattenPlayable
<1>8. CASE code = <<>>
  <2>1. ss = <<>>
    BY <1>4, <1>8
  <2>2. FlattenSeq(ss) = <<>>
    BY <2>1 DEF FlattenSeq
  <2> QED BY <1>2, <1>7, <1>8, <2>2 DEF code
<1>9. CASE code # <<>>
  <2>1. Len(code) > 0
    BY <1>1, <1>9
  <2>2. PICK r \in Seq(Segment) : FlattenSeq(ss) = r \o ss[Len(ss)]
    BY <1>1, <1>3, <1>4, <2>1, FlattenPlayable
  <2> DEFINE last == On(code[Len(code)])
  <2>3. last \in Segment /\ last.on
    BY <1>6, <2>1 DEF On, Segment
  <2>4. Elements(c) = r \o <<last>>
    BY <1>2, <1>4, <1>5, <2>1, <2>2
  <2> HIDE DEF last
  <2>5. Len(r \o <<last>>) = Len(r) + 1 /\ (r \o <<last>>)[Len(r) + 1] = last /\ Len(r) \in Nat
    BY <2>2, <2>3
  <2> QED BY <1>7, <1>9, <2>3, <2>4, <2>5 DEF code
<1> QED BY <1>8, <1>9

\* A letter is followed by one gap at most.
LEMMA PiecePlayable ==
    ASSUME NEW strictly \in BOOLEAN, NEW t, NEW i,
           strictly => t[i] \in {"E", "A", "_"}
    PROVE  Playable(Piece(t, i), strictly)
<1> DEFINE letter == Code(t[i]) # <<>> /\ ~EndsWord(t, i)
           word == EndsWord(t, i) /\ \E j \in i + 1..Len(t) : t[j] # "_"
           elements == Elements(t[i])
           first == elements \o When(letter, Gap(3))
<1>1. Piece(t, i) = first \o When(word, Gap(7))
  BY DEF Piece
<1>2. /\ Playable(elements, strictly)
      /\ Code(t[i]) # <<>> => Len(elements) > 0 /\ elements[Len(elements)].on
  BY ElementsPlayable
<1>3. strictly /\ word => Code(t[i]) # <<>>
  BY CodeTypes DEF EndsWord
<1>4. ~(letter /\ word)
  OBVIOUS
<1>5. letter => Code(t[i]) # <<>>
  OBVIOUS
<1> HIDE DEF elements, letter, word
<1>6. elements \in Seq(Segment)
  BY <1>2 DEF Playable
<1>7. CASE letter
  <2>1. first = elements \o Gap(3) /\ Playable(elements \o Gap(3), strictly)
    BY <1>2, <1>5, <1>7, GapPlayable DEF When
  <2>2. elements \o Gap(3) \in Seq(Segment)
    BY <2>1 DEF Playable
  <2>3. Piece(t, i) = (elements \o Gap(3)) \o <<>>
    BY <1>1, <1>4, <1>7, <2>1 DEF When
  <2> QED BY <2>1, <2>2, <2>3, ConcatEmptySeq
<1>8. CASE ~letter /\ word
  <2>1. first = elements
    BY <1>6, <1>8, ConcatEmptySeq DEF When
  <2>2. Piece(t, i) = elements \o Gap(7)
    BY <1>1, <1>8, <2>1 DEF When
  <2> QED BY <1>2, <1>3, <1>8, <2>2, GapPlayable
<1>9. CASE ~letter /\ ~word
  <2>1. first = elements
    BY <1>6, <1>9, ConcatEmptySeq DEF When
  <2>2. Piece(t, i) = elements
    BY <1>1, <1>6, <1>9, <2>1, ConcatEmptySeq DEF When
  <2> QED BY <1>2, <2>2
<1> QED BY <1>7, <1>8, <1>9

\* So is a whole text.
LEMMA EncodePlayable ==
    ASSUME NEW strictly \in BOOLEAN, NEW n \in Nat, NEW S, NEW t \in [1..n -> S],
           strictly => S \subseteq {"E", "A", "_"}
    PROVE  Playable(Encode(t), strictly)
<1> DEFINE ss == [i \in DOMAIN t |-> Piece(t, i)]
<1>1. Encode(t) = FlattenSeq(ss)
  BY DEF Encode
<1>2. \A i \in 1..n : Playable(ss[i], strictly)
  BY PiecePlayable
<1>3. ss \in [1..n -> Seq(Segment)]
  BY <1>2 DEF Playable
<1>4. ss \in Seq(Seq(Segment)) /\ Len(ss) = n
  BY <1>3, FunctionIsSeq
<1> HIDE DEF ss
<1> QED BY <1>1, <1>2, <1>4, FlattenPlayable

-----------------------------------------------------------------------------
(* Types *)

\* Every variable keeps its type: what is played is made of elements and gaps
\* of standard length, whatever the text was.
THEOREM CwTypeCorrect == CwSpec => []CwTypeOK
<1>1. CwInit => CwTypeOK
  <2> SUFFICES ASSUME CwInit PROVE CwTypeOK
    OBVIOUS
  <2>1. {squeezed, other, linkUp, key} \subseteq BOOLEAN
    BY DEF CwInit
  <2>2. segments \in Seq([on : BOOLEAN, dits : {1, 3, 7}])
    BY DEF CwInit
  <2>3. strokes \in 0..MaxStrokes
    BY CwAssumption DEF CwInit
  <2> QED BY <2>1, <2>2, <2>3 DEF CwInit, CwTypeOK
<1>2. CwTypeOK /\ [CwNext]_cwVars => CwTypeOK'
  <2> SUFFICES ASSUME CwTypeOK, [CwNext]_cwVars PROVE CwTypeOK'
    OBVIOUS
  <2> USE DEF cwWorld, playing, keying
  <2>0. ASSUME Stroke PROVE strokes' \in 0..MaxStrokes
    BY <2>0, CwAssumption DEF Stroke, CwTypeOK
  <2>1. CASE SendText
    <3>1. PICK t \in Texts : segments' = Encode(t)
      BY <2>1 DEF SendText
    <3>2. PICK n \in 0..MaxText : t \in [1..n -> Characters]
      BY <3>1 DEF Texts
    <3>3. Encode(t) \in Seq(Segment)
      <4>1. n \in Nat
        BY CwAssumption
      <4>2. Playable(Encode(t), FALSE)
        BY <3>2, <4>1, EncodePlayable
      <4> QED BY <4>2 DEF Playable
    <3> QED BY <2>0, <2>1, <3>1, <3>3 DEF SendText, CwTypeOK, Segment
  <2>2. CASE PlayNext
    <3>1. CASE segments = <<>>
      BY <2>2, <3>1 DEF PlayNext, SendKey, CwTypeOK
    <3>2. CASE segments # <<>>
      <4>1. /\ Head(segments) \in [on : BOOLEAN, dits : {1, 3, 7}]
            /\ Tail(segments) \in Seq([on : BOOLEAN, dits : {1, 3, 7}])
        <5>1. segments \in Seq(Segment)
          BY DEF CwTypeOK, Segment
        <5>2. Head(segments) \in Segment /\ Tail(segments) \in Seq(Segment)
          BY <3>2, <5>1
        <5> QED BY <5>2 DEF Segment
      <4>2. Head(segments).on \in BOOLEAN /\ Head(segments).dits \in Nat
        BY <4>1
      <4>3. silence' \in Nat /\ key' \in BOOLEAN
        BY <2>2, <3>2, <4>2 DEF PlayNext, SendKey, CwTypeOK
      <4> QED BY <2>2, <3>2, <4>1, <4>3 DEF PlayNext, CwTypeOK
    <3> QED BY <3>1, <3>2
  <2>3. CASE OtherKey
    BY <2>0, <2>3 DEF OtherKey, SendKey, CwTypeOK
  <2>4. CASE KeyerDecides
    <3>1. NextElement \in {"dit", "dah", "none"}
      BY DEF NextElement
    <3> QED BY <2>4, <3>1 DEF KeyerDecides, SendKey, CwTypeOK
  <2>5. CASE KeyerMoves
    BY <2>5 DEF KeyerMoves, SendKey, CwTypeOK
  <2>6. CASE SwitchAway
    BY <2>6 DEF SwitchAway, CwTypeOK
  <2>7. ASSUME NEW p \in {"dit", "dah"}, Paddle(p) PROVE CwTypeOK'
    BY <2>0, <2>7 DEF Paddle, CwTypeOK
  <2>8. CASE UNCHANGED cwVars
    BY <2>8 DEF cwVars, CwTypeOK
  <2> QED BY <2>1, <2>2, <2>3, <2>4, <2>5, <2>6, <2>7, <2>8 DEF CwNext
<1> QED BY <1>1, <1>2, PTL DEF CwSpec

-----------------------------------------------------------------------------
(* What is sent is Morse *)

\* No gap is to come where the key is up already.
GapsApart ==
    "odd" \notin cwHabits =>
        /\ \A i \in 1..Len(segments) - 1 : segments[i].on \/ segments[i + 1].on
        /\ silence \in {0, 1, 3, 7}
        /\ silence # 0 /\ segments # <<>> => segments[1].on

BothClosed == squeezed => paddle = {"dit", "dah"}

\* Sources that take turns: one is at work at a time, it alone holds the key
\* down, and none is when the link is closed.
TextAlone == text # "none" => keyer \notin {"down", "gap"} /\ paddle = {} /\ ~other
OtherAlone == other => text = "none" /\ keyer \notin {"down", "gap"} /\ paddle = {}
SourceTurns ==
    cwHabits \subseteq {"odd"} =>
        /\ key => text # "none" \/ keyer = "down" \/ other
        /\ TextAlone /\ OtherAlone
        /\ ~linkUp => keyer = "gone" /\ text = "none" /\ ~other

CwInv == GapsApart /\ BothClosed /\ SourceTurns

LEMMA GapsApartKept == CwTypeOK /\ GapsApart /\ [CwNext]_cwVars => GapsApart'
<1> SUFFICES ASSUME CwTypeOK, GapsApart, [CwNext]_cwVars, ("odd" \notin cwHabits)' PROVE GapsApart'
  BY DEF GapsApart
<1> USE DEF cwWorld, playing, keying
<1>1. CASE SendText
  <2>1. PICK t \in Texts : segments' = Encode(t)
    BY <1>1 DEF SendText
  <2>2. PICK n \in 0..MaxText : t \in [1..n -> Characters]
    BY <2>1 DEF Texts
  <2>3. Characters \subseteq {"E", "A", "_"}
    BY <1>1 DEF Characters, SendText
  <2>4. Spaced(Encode(t))
    <3>1. n \in Nat
      BY CwAssumption
    <3>2. Playable(Encode(t), TRUE)
      BY <2>2, <2>3, <3>1, EncodePlayable
    <3> QED BY <3>2 DEF Playable
  <2> QED BY <1>1, <2>1, <2>4 DEF SendText, GapsApart, Spaced
<1>2. CASE PlayNext
  <2>1. CASE segments = <<>>
    BY <1>2, <2>1 DEF PlayNext, GapsApart
  <2>2. CASE segments # <<>>
    <3>1. "odd" \notin cwHabits /\ segments' = Tail(segments) /\ segments \in Seq(Segment)
      BY <1>2, <2>2 DEF PlayNext, CwTypeOK, Segment
    <3>2. /\ Head(segments) = segments[1] /\ segments[1] \in Segment
          /\ Len(segments') = Len(segments) - 1 /\ Len(segments) \in Nat
          /\ \A i \in 1..Len(segments') : segments'[i] = segments[i + 1]
      BY <2>2, <3>1
    <3>3. ASSUME NEW i \in 1..Len(segments') - 1
          PROVE  segments'[i].on \/ segments'[i + 1].on
      <4>1. /\ i \in 1..Len(segments') /\ i + 1 \in 1..Len(segments')
            /\ i + 1 \in 1..Len(segments) - 1
        BY <3>2
      <4> QED BY <3>1, <3>2, <4>1 DEF GapsApart
    <3>4. CASE segments[1].on
      BY <1>2, <2>2, <3>1, <3>2, <3>3, <3>4 DEF PlayNext, GapsApart
    <3>5. CASE ~segments[1].on
      <4>1. silence = 0
        BY <2>2, <3>1, <3>5 DEF GapsApart
      <4>2. segments[1].dits \in {1, 3, 7}
        BY <3>2 DEF Segment
      <4>3. silence' \in {1, 3, 7}
        BY <1>2, <2>2, <3>2, <3>5, <4>1, <4>2 DEF PlayNext
      <4>4. ASSUME segments' # <<>> PROVE segments'[1].on
        <5>1. segments' \in Seq(Segment)
          BY <2>2, <3>1
        <5>2. Len(segments') > 0
          BY <4>4, <5>1
        <5>3. 1 \in 1..Len(segments') /\ 1 \in 1..Len(segments) - 1
          BY <3>2, <5>2
        <5>4. segments'[1] = segments[1 + 1] /\ (segments[1].on \/ segments[1 + 1].on)
          BY <3>1, <3>2, <5>3 DEF GapsApart
        <5> QED BY <3>5, <5>4
      <4> QED BY <3>3, <4>3, <4>4 DEF GapsApart
    <3> QED BY <3>4, <3>5
  <2> QED BY <2>1, <2>2
<1>3. CASE UNCHANGED <<cwHabits, segments, silence>>
  BY <1>3 DEF GapsApart
<1> QED BY <1>1, <1>2, <1>3
        DEF CwNext, OtherKey, KeyerDecides, KeyerMoves, SwitchAway, Paddle, cwVars

LEMMA BothClosedKept == BothClosed /\ [CwNext]_cwVars => BothClosed'
BY DEF BothClosed, CwNext, SendText, PlayNext, OtherKey, KeyerDecides, KeyerMoves,
       SwitchAway, Paddle, cwVars, cwWorld, playing, keying

LEMMA SourceTurnsKept == CwTypeOK /\ SourceTurns /\ [CwNext]_cwVars => SourceTurns'
<1> SUFFICES ASSUME CwTypeOK, SourceTurns, [CwNext]_cwVars, (cwHabits \subseteq {"odd"})' PROVE SourceTurns'
  BY DEF SourceTurns
<1> USE DEF cwWorld, playing, keying, SourceTurns, TextAlone, OtherAlone
<1>0. cwHabits' = cwHabits
  BY DEF CwNext, SendText, PlayNext, OtherKey, KeyerDecides, KeyerMoves, SwitchAway, Paddle, cwVars
<1>1. "mix" \notin cwHabits /\ "switch" \notin cwHabits
  BY <1>0
<1>2. CASE SendText
  BY <1>0, <1>1, <1>2 DEF SendText, Alone, AtWork
<1>3. CASE PlayNext
  <2>1. linkUp /\ keyer \notin {"down", "gap"} /\ paddle = {} /\ ~other
    BY <1>0, <1>3 DEF PlayNext, CwTypeOK
  <2> QED BY <1>0, <1>3, <2>1 DEF PlayNext, SendKey
<1>4. CASE OtherKey
  BY <1>0, <1>1, <1>4 DEF OtherKey, SendKey, Alone, AtWork, CwTypeOK
<1>5. CASE KeyerDecides
  BY <1>0, <1>5 DEF KeyerDecides, SendKey, NextElement, CwTypeOK
<1>6. CASE KeyerMoves
  BY <1>0, <1>6 DEF KeyerMoves, SendKey, CwTypeOK
<1>7. CASE SwitchAway
  BY <1>0, <1>1, <1>7 DEF SwitchAway, AtWork
<1>8. ASSUME NEW p \in {"dit", "dah"}, Paddle(p) PROVE SourceTurns'
  BY <1>0, <1>1, <1>8 DEF Paddle
<1>9. CASE UNCHANGED cwVars
  BY <1>9 DEF cwVars
<1> QED BY <1>2, <1>3, <1>4, <1>5, <1>6, <1>7, <1>8, <1>9 DEF CwNext

\* Whatever is typed, squeezed and cut off, what the radio is sent is Morse: the
\* gaps of a text are 1, 3 or 7 dits, a squeeze alternates, and where sources
\* take turns on one radio the key is up when none is at work.
THEOREM CwAlwaysInOrder == CwSpec => CwInOrder
<1>1. CwInit => CwInv
  BY DEF CwInit, CwInv, GapsApart, BothClosed, SourceTurns, TextAlone, OtherAlone
<1>2. CwTypeOK /\ CwInv /\ [CwNext]_cwVars => CwInv'
  BY GapsApartKept, BothClosedKept, SourceTurnsKept DEF CwInv
<1>3. CwInv => IdleIsUp
  BY DEF CwInv, SourceTurns, IdleIsUp, AtWork
<1>4. CwTypeOK /\ CwInv =>
          (text = "playing" /\ text' = "playing" /\ silence > 0 /\ silence' = 0
              /\ "odd" \notin cwHabits => silence \in {1, 3, 7})
  BY DEF CwInv, GapsApart
<1>5. CwInv /\ [CwNext]_cwVars =>
          (squeezed /\ keyer = "idle" /\ keyer' = "down" => element' # element)
  <2> SUFFICES ASSUME BothClosed, [CwNext]_cwVars, squeezed, keyer = "idle", keyer' = "down"
               PROVE  element' # element
    BY DEF CwInv
  <2>1. KeyerDecides
    BY DEF CwNext, SendText, PlayNext, OtherKey, KeyerMoves, SwitchAway, Paddle, cwVars, playing, keying
  <2> QED BY <2>1 DEF KeyerDecides, NextElement, BothClosed
<1> QED BY <1>1, <1>2, <1>3, <1>4, <1>5, CwTypeCorrect, PTL
        DEF CwSpec, CwInOrder, StandardGaps, SqueezeAlternates
=============================================================================
