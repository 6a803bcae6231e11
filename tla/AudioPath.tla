----------------------------- MODULE AudioPath -----------------------------
(***************************************************************************)
(* The audio link between one client and one radio across changes of the   *)
(* radio's settings.  Codec and sample rate are not negotiated: each end   *)
(* builds its AudioLink (common/audio_io.py) from the settings it has, the *)
(* server when the bridge starts (server/radio_manager.py), the client     *)
(* when it selects the radio or is told of a change (client/session.py).   *)
(* The server learns the client's address from its packets.                *)
(***************************************************************************)
EXTENDS Naturals

CONSTANT MaxAudioEvents  \* bounds changes, clicks and lost connections

ASSUME AudioAssumption == MaxAudioEvents \in Nat

Settings == {1, 2}  \* codec and sample rate, as they were and as they are changed
NoLink == 0         \* no AudioLink

VARIABLES
    haste,       \* which of the awkward things below happen
    row,         \* the settings saved at the server
    change,      \* where reload_radio is: "idle", "stopped" or "saved"
    asked,       \* the settings it is to save
    serverLink,  \* settings of the bridge's AudioLink
    peerKnown,   \* its peer: the client's address has been learned
    ctl,         \* the client's control connection to the radio is up
    notice,      \* a "reconfigured" message is on its way to the client
    refetch,     \* _handle_reconfigured has asked for the list of radios
    clientLink,  \* settings of the client's AudioLink
    announcing,  \* its announce timer is armed
    audioEvents

audioVars == <<haste, row, change, asked, serverLink, peerKnown, ctl, notice,
               refetch, clientLink, announcing, audioEvents>>

(* early: the client's request is answered before the row is saved; offline: *)
(* it fails, and the list saved before is used; missed: the radio is changed *)
(* while the client is not connected to it; click: the user selects the      *)
(* radio again, from the window's list, which is as old as the window.       *)
Hastes == SUBSET {"early", "offline", "missed", "click"}

AudioTypeOK ==
    /\ haste \in Hastes
    /\ {row, asked} \subseteq Settings
    /\ change \in {"idle", "stopped", "saved"}
    /\ {serverLink, clientLink} \subseteq Settings \cup {NoLink}
    /\ {peerKnown, ctl, notice, refetch, announcing} \subseteq BOOLEAN
    /\ audioEvents \in 0..MaxAudioEvents

AudioInit ==
    /\ haste \in Hastes
    /\ row = 1 /\ asked = 1 /\ serverLink = 1 /\ clientLink = 1
    /\ change = "idle"
    /\ peerKnown = FALSE /\ announcing = TRUE
    /\ ctl = TRUE
    /\ notice = FALSE /\ refetch = FALSE
    /\ audioEvents = 0

AudioEvent == audioEvents < MaxAudioEvents /\ audioEvents' = audioEvents + 1

-----------------------------------------------------------------------------
(* The server *)

\* reload_radio stops the bridge, which tells the clients that are connected.
Reconfigure(s) ==
    /\ change = "idle" /\ AudioEvent
    /\ ctl \/ "missed" \in haste
    /\ change' = "stopped"
    /\ asked' = s
    /\ serverLink' = NoLink
    /\ peerKnown' = FALSE
    /\ notice' = (notice \/ ctl)
    /\ UNCHANGED <<haste, row, ctl, refetch, clientLink, announcing>>

\* Mutant: what is saved is read off the bridge, which is gone.
RowSaved_FromBridge ==
    /\ change = "stopped"
    /\ change' = "saved"
    /\ row' = serverLink
    /\ UNCHANGED <<haste, asked, serverLink, peerKnown, ctl, notice, refetch,
                   clientLink, announcing, audioEvents>>

\* 50 ms and more later.
RowSaved ==
    /\ change = "stopped"
    /\ change' = "saved"
    /\ row' = asked
    /\ UNCHANGED <<haste, asked, serverLink, peerKnown, ctl, notice, refetch,
                   clientLink, announcing, audioEvents>>

\* The new bridge starts, or cannot.
BridgeStarted ==
    /\ change = "saved"
    /\ change' = "idle"
    /\ serverLink' \in {row, NoLink}
    /\ peerKnown' = FALSE
    /\ UNCHANGED <<haste, row, asked, ctl, notice, refetch, clientLink, announcing, audioEvents>>

\* _on_speaker: the first packet that arrives names the peer.
ServerHears ==
    /\ announcing
    /\ serverLink # NoLink
    /\ peerKnown' = TRUE
    /\ UNCHANGED <<haste, row, change, asked, serverLink, ctl, notice, refetch,
                   clientLink, announcing, audioEvents>>

-----------------------------------------------------------------------------
(* The client *)

\* Mutant: the connection is closed and made again, and that is all.
NoticeRead_Reconnect ==
    /\ notice
    /\ notice' = FALSE
    /\ ctl' = FALSE
    /\ UNCHANGED <<haste, row, change, asked, serverLink, peerKnown, refetch,
                   clientLink, announcing, audioEvents>>

\* The control client reads "reconfigured".
NoticeRead ==
    /\ notice
    /\ notice' = FALSE
    /\ ctl' = FALSE
    /\ refetch' = TRUE
    /\ UNCHANGED <<haste, row, change, asked, serverLink, peerKnown,
                   clientLink, announcing, audioEvents>>

\* Mutant: the timer of the new link is armed when the old one knew the peer.
NewLink_Quiet(s) == clientLink' = s /\ announcing' = FALSE

\* switch_to: the old link is stopped, a new one announces itself.
NewLink(s) == clientLink' = s /\ announcing' = TRUE

\* The list arrives, and if the radio is still selected switch_to makes a new
\* link and a new connection.
Refetched ==
    /\ refetch
    /\ change = "stopped" => "early" \in haste
    /\ refetch' = FALSE
    /\ \/ clientLink # NoLink /\ NewLink(row) /\ ctl' = FALSE
       \/ clientLink # NoLink /\ "offline" \in haste /\ NewLink(clientLink) /\ ctl' = FALSE
       \/ clientLink = NoLink /\ UNCHANGED <<clientLink, announcing, ctl>>
    /\ UNCHANGED <<haste, row, change, asked, serverLink, peerKnown, notice, audioEvents>>

\* _run_control_client_forever
CtlConnects ==
    /\ ~ctl /\ ~notice
    /\ serverLink # NoLink
    /\ ctl' = TRUE
    /\ UNCHANGED <<haste, row, change, asked, serverLink, peerKnown, notice, refetch,
                   clientLink, announcing, audioEvents>>

CtlDrops ==
    /\ ctl /\ AudioEvent
    /\ ctl' = FALSE
    /\ notice' \in IF "missed" \in haste THEN {notice, FALSE} ELSE {notice}
    /\ UNCHANGED <<haste, row, change, asked, serverLink, peerKnown, refetch,
                   clientLink, announcing>>

\* Another radio is clicked in the list, or this one, with the settings it had
\* when the window was made.
Reselect ==
    /\ AudioEvent
    /\ "click" \in haste
    /\ \/ NewLink(1)
       \/ clientLink' = NoLink /\ announcing' = FALSE
    /\ ctl' = FALSE
    /\ notice' = FALSE
    /\ UNCHANGED <<haste, row, change, asked, serverLink, peerKnown, refetch>>

AudioNext ==
    \/ \E s \in Settings : Reconfigure(s)
    \/ RowSaved \/ BridgeStarted \/ ServerHears
    \/ NoticeRead \/ Refetched \/ CtlConnects \/ CtlDrops \/ Reselect

AudioFairness ==
    /\ WF_audioVars(RowSaved) /\ WF_audioVars(BridgeStarted) /\ WF_audioVars(ServerHears)
    /\ WF_audioVars(NoticeRead) /\ WF_audioVars(Refetched)

AudioSpec == AudioInit /\ [][AudioNext]_audioVars /\ AudioFairness

-----------------------------------------------------------------------------
(* Properties *)

\* Both ends use the same settings once a change has been dealt with.
Agree ==
    change = "idle" /\ ~notice /\ ~refetch /\ serverLink # NoLink /\ clientLink # NoLink
        => clientLink = serverLink

\* The two ends do not drift onto different codecs, if the client hears of every
\* change, its request is answered after the row is saved, and the radio is not
\* selected again from the window's list.
LinksAgree == haste = {} => Agree

\* Re-fetch and re-switch to pick up whatever changed (session.py:553-562), on a
\* client that is connected when the radio is changed.
ChangePickedUp == haste \subseteq {"early"} => Agree

\* A bridge that has forgotten the client learns of it again, without a
\* reconnection (audio_io.py:252-262).
LinkHeals == []<>(clientLink # NoLink /\ serverLink # NoLink => peerKnown)
=============================================================================
