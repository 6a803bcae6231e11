----------------------------- MODULE CwSources -----------------------------
(***************************************************************************)
(* What keys CW on the client: the on-screen key (client/ui.py), text that *)
(* is played (client/cw/text_source.py, common/morse.py), the iambic keyer *)
(* (client/cw/iambic.py) and a WinKeyer (client/cw/winkeyer.py).  All of   *)
(* them send key events over one CwLink (common/cw_link.py); the radio     *)
(* does what it was told last.  Time is counted in dits.                   *)
(***************************************************************************)
EXTENDS Naturals, Sequences, SequencesExt

CONSTANT MaxText, MaxStrokes  \* bound the length of a text, and what the operator does

ASSUME CwAssumption == MaxText \in Nat /\ MaxStrokes \in Nat

VARIABLES
    cwHabits,   \* of "mix", "switch" and "odd", what the operator does
    source,     \* the configured source: "straight", "iambic" or "winkeyer"
    text,       \* where the text task is: "none", "new" or "playing"
    segments,   \* what it has still to play
    silence,    \* for how long it has kept the key up since an element
    paddle,     \* paddles that are closed
    keyer,      \* the iambic keyer: "idle", "down", "gap" or "gone"
    element,    \* its _last_element: "dit", "dah" or "none"
    squeezed,   \* both paddles have been closed since the last element began
    other,      \* the on-screen key or the WinKeyer's is down
    linkUp,     \* the CwLink of the radio is open
    key,        \* what the radio was told last
    strokes

playing == <<text, segments, silence>>
keying == <<keyer, element, squeezed>>
cwWorld == <<cwHabits, source, linkUp>>
cwVars == <<cwWorld, playing, paddle, keying, other, key, strokes>>

(* mix: sources are used at the same time; switch: another radio is selected *)
(* while one of them is at work; odd: texts have characters without a code.  *)
Habits == SUBSET {"mix", "switch", "odd"}

CwTypeOK ==
    /\ cwHabits \in Habits
    /\ source \in {"straight", "iambic", "winkeyer"}
    /\ text \in {"none", "new", "playing"}
    /\ segments \in Seq([on : BOOLEAN, dits : {1, 3, 7}])
    /\ silence \in Nat
    /\ paddle \subseteq {"dit", "dah"}
    /\ keyer \in {"idle", "down", "gap", "gone"}
    /\ element \in {"dit", "dah", "none"}
    /\ {squeezed, other, linkUp, key} \subseteq BOOLEAN
    /\ strokes \in 0..MaxStrokes

CwInit ==
    /\ cwHabits \in Habits
    /\ source \in {"straight", "iambic", "winkeyer"}
    /\ text = "none" /\ segments = <<>> /\ silence = 0
    /\ paddle = {} /\ keyer = "idle" /\ element = "none" /\ squeezed = FALSE
    /\ other = FALSE /\ linkUp = TRUE /\ key = FALSE
    /\ strokes = 0

-----------------------------------------------------------------------------
(* Text *)

\* E and A stand for the letters with one and with several elements, # for a
\* character that is not in MORSE_TABLE.

\* Mutant: a dah of two dits.
Code_ShortDah(c) == CASE c = "E" -> <<1>> [] c = "A" -> <<1, 2>> [] OTHER -> <<>>

\* A dit is 1, a dah is 3 dits long.
Code(c) == CASE c = "E" -> <<1>> [] c = "A" -> <<1, 3>> [] OTHER -> <<>>
On(n) == [on |-> TRUE, dits |-> n]
Gap(n) == <<[on |-> FALSE, dits |-> n]>>
When(p, s) == IF p THEN s ELSE <<>>

EndsWord(t, i) == t[i] # "_" /\ (i = Len(t) \/ t[i + 1] = "_")
Elements(c) == FlattenSeq([e \in DOMAIN Code(c) |->
                   <<On(Code(c)[e])>> \o When(e < Len(Code(c)), Gap(1))])

\* Mutant: the gap between letters is not left out at the end of a word.
Piece_BothGaps(t, i) ==
    Elements(t[i])
    \o When(Code(t[i]) # <<>>, Gap(3))
    \o When(EndsWord(t, i) /\ \E j \in i + 1..Len(t) : t[j] # "_", Gap(7))

\* A letter with the gap that follows it.
Piece(t, i) ==
    Elements(t[i])
    \o When(Code(t[i]) # <<>> /\ ~EndsWord(t, i), Gap(3))
    \o When(EndsWord(t, i) /\ \E j \in i + 1..Len(t) : t[j] # "_", Gap(7))

Encode(t) == FlattenSeq([i \in DOMAIN t |-> Piece(t, i)])

Characters == {"E", "A", "_"} \cup IF "odd" \in cwHabits THEN {"#"} ELSE {}
Texts == UNION {[1..n -> Characters] : n \in 0..MaxText}

-----------------------------------------------------------------------------
(* Keying *)

\* Events are dropped by a link that has been closed.
SendKey(on) == key' = IF linkUp THEN on ELSE key

AtWork == text # "none" \/ keyer \in {"down", "gap"} \/ paddle # {} \/ other
Alone == "mix" \in cwHabits \/ ~AtWork
Stroke == strokes < MaxStrokes /\ strokes' = strokes + 1

\* TextCwSource.send: a text that is being played is cut off where it is.
SendText ==
    /\ linkUp
    /\ Stroke
    /\ Alone \/ text # "none"
    /\ text' = "new"
    /\ \E t \in Texts : segments' = Encode(t)
    /\ silence' = 0
    /\ UNCHANGED <<cwWorld, paddle, keying, other, key>>

\* _play: the next segment, or the key-up at the end.
PlayNext ==
    /\ text # "none"
    /\ IF segments = <<>>
       THEN text' = "none" /\ SendKey(FALSE) /\ UNCHANGED <<segments, silence>>
       ELSE /\ text' = "playing"
            /\ SendKey(Head(segments).on)
            /\ segments' = Tail(segments)
            /\ silence' = IF Head(segments).on THEN 0 ELSE silence + Head(segments).dits
    /\ UNCHANGED <<cwWorld, paddle, keying, other, strokes>>

\* The on-screen key, or the key of a WinKeyer.
OtherKey ==
    /\ linkUp
    /\ Stroke
    /\ other \/ Alone
    /\ other' = ~other
    /\ SendKey(other')
    /\ UNCHANGED <<cwWorld, playing, paddle, keying>>

Paddle(p) ==
    /\ source = "iambic"
    /\ Stroke
    /\ (text = "none" /\ ~other) \/ "mix" \in cwHabits
    /\ paddle' = IF p \in paddle THEN paddle \ {p} ELSE paddle \cup {p}
    /\ squeezed' = (squeezed /\ paddle' = {"dit", "dah"})
    /\ UNCHANGED <<cwWorld, playing, keyer, element, other, key>>

\* Mutant: a squeeze begins with a dit every time.
NextElement_DitFirst ==
    IF "dit" \in paddle THEN "dit" ELSE IF "dah" \in paddle THEN "dah" ELSE "none"

\* next_element
NextElement ==
    CASE paddle = {"dit", "dah"} -> IF element = "dit" THEN "dah" ELSE "dit"
      [] paddle = {"dit"} -> "dit"
      [] paddle = {"dah"} -> "dah"
      [] OTHER -> "none"

\* The keyer's loop reads the paddles.
KeyerDecides ==
    /\ keyer = "idle" /\ source = "iambic"
    /\ paddle # {} \/ element # "none"
    /\ element' = NextElement
    /\ squeezed' = (paddle = {"dit", "dah"})
    /\ IF NextElement = "none" THEN UNCHANGED <<keyer, key>>
       ELSE keyer' = "down" /\ SendKey(TRUE)
    /\ UNCHANGED <<cwWorld, playing, paddle, other, strokes>>

\* Mutant: the gap before the next element is silent already.
KeyerMoves_NoUp ==
    /\ keyer \in {"down", "gap"}
    /\ keyer' = IF keyer = "down" THEN "gap" ELSE "idle"
    /\ UNCHANGED <<cwWorld, playing, paddle, element, squeezed, other, key, strokes>>

\* The element, then the gap, is over.
KeyerMoves ==
    /\ keyer \in {"down", "gap"}
    /\ IF keyer = "down" THEN keyer' = "gap" /\ SendKey(FALSE)
       ELSE keyer' = "idle" /\ UNCHANGED key
    /\ UNCHANGED <<cwWorld, playing, paddle, element, squeezed, other, strokes>>

\* _teardown: the keyer's task is cancelled at its await, the WinKeyer closed,
\* and the link with them; a text goes on without one.
SwitchAway ==
    /\ linkUp
    /\ "switch" \in cwHabits \/ ~AtWork
    /\ linkUp' = FALSE
    /\ keyer' = "gone"
    /\ other' = FALSE
    /\ UNCHANGED <<cwHabits, source, playing, paddle, element, squeezed, key, strokes>>

CwNext == \/ SendText \/ PlayNext \/ OtherKey \/ KeyerDecides \/ KeyerMoves \/ SwitchAway
          \/ \E p \in {"dit", "dah"} : Paddle(p)

CwSpec == CwInit /\ [][CwNext]_cwVars

-----------------------------------------------------------------------------
(* Properties *)

\* Nothing is at work and the key is up, however texts were cut off and sources
\* took turns: what a cut-off text leaves down, the next text lets up.  Only a
\* switch of radios leaves the old radio's key down, and sources that are used
\* at once end each other's elements.
IdleIsUp ==
    cwHabits \subseteq {"odd"} => (~AtWork => ~key)

\* Between two elements of a text the key is up for 1, 3 or 7 dits.
StandardGaps ==
    [][text = "playing" /\ text' = "playing" /\ silence > 0 /\ silence' = 0
         /\ "odd" \notin cwHabits => silence \in {1, 3, 7}]_cwVars

\* While both paddles stay closed dits and dahs alternate.
SqueezeAlternates ==
    [][squeezed /\ keyer = "idle" /\ keyer' = "down" => element' # element]_cwVars

\* What is sent is Morse: elements apart by standard gaps, alternating in a
\* squeeze, and nothing left down.
CwInOrder == []IdleIsUp /\ StandardGaps /\ SqueezeAlternates
=============================================================================
