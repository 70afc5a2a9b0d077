------------------------------- MODULE Admission -------------------------------
(***************************************************************************)
(* One seat's decision admission: class Admission of private_window.py.    *)
(*                                                                         *)
(* The object is a record, and each method an operator from a record to    *)
(* the next one.  A method's raise statements are its May... predicate: a  *)
(* call whose predicate is false raises ValueError and changes nothing.    *)
(*                                                                         *)
(* A window is an issued observation.  Its UUID is fresh in the code, so a *)
(* window is named by the hole and the round that issued it.  Of a window  *)
(* only the profile frozen into it matters here; of an attempt snapshot,   *)
(* the window it belongs to and what it says of its HTTP response reader   *)
(* (response_reader_joined: None, False or True).                          *)
(***************************************************************************)
EXTENDS Naturals, FiniteSets

CONSTANTS
    Windows,      \* every window the engine can issue to a seat
    AttemptIds,   \* identifiers of native attempts
    MaxAttempts,  \* attempts per window the source retry policy allows (4)
    NoWindow,     \* Admission.active is None
    NoAction,     \* a window with no entry in Admission.accepted
    NoAttempt     \* Action.selected_attempt_id is None (a scripted action)

ASSUME AdmissionAssumption ==
    /\ MaxAttempts \in Nat
    /\ NoWindow \notin Windows
    /\ NoAction \notin AttemptIds \cup {NoAttempt}

Profiles == {"default", "registered"}
Readers == {"unknown", "open", "joined"}

(* windows and attempts are dictionaries: a key that is absent has the     *)
(* value "unissued", or the window NoWindow.                               *)
AdmissionState ==
    [windows  : [Windows -> Profiles \cup {"unissued"}],
     active   : Windows \cup {NoWindow},
     accepted : [Windows -> AttemptIds \cup {NoAttempt, NoAction}],
     attempts : [AttemptIds -> [window : Windows \cup {NoWindow}, reader : Readers]],
     stopping : BOOLEAN]

EmptyAdmission ==
    [windows  |-> [w \in Windows |-> "unissued"],
     active   |-> NoWindow,
     accepted |-> [w \in Windows |-> NoAction],
     attempts |-> [a \in AttemptIds |-> [window |-> NoWindow, reader |-> "unknown"]],
     stopping |-> FALSE]

Issued(adm, w) == adm.windows[w] # "unissued"

(***************************************************************************)
(* issue: one window at a time, never after a stop, never an old one.      *)
(***************************************************************************)
MayIssue(adm, w) ==
    /\ ~adm.stopping
    /\ adm.active = NoWindow
    /\ ~Issued(adm, w)

Issue(adm, w, profile) == [adm EXCEPT !.windows[w] = profile, !.active = w]

(***************************************************************************)
(* progress: a first snapshot needs the window active and below the retry  *)
(* policy's limit; a later one may not take a reader join back.            *)
(***************************************************************************)
Rows(adm, w) == {a \in AttemptIds : adm.attempts[a].window = w}

MayStart(adm, w, a) ==
    /\ adm.attempts[a].window = NoWindow
    /\ Cardinality(Rows(adm, w)) < MaxAttempts
    /\ w = adm.active
    /\ ~adm.stopping

\* Mutant: a snapshot may rewrite any earlier one of its window.
MayRewrite(adm, w, a, reader) == adm.attempts[a].window = w

MayUpdate(adm, w, a, reader) ==
    /\ adm.attempts[a].window = w
    /\ adm.attempts[a].reader = "joined" => reader = "joined"

MayProgress(adm, w, a, reader) ==
    /\ Issued(adm, w)
    /\ MayStart(adm, w, a) \/ MayUpdate(adm, w, a, reader)

Progress(adm, w, a, reader) ==
    [adm EXCEPT !.attempts[a] = [window |-> w, reader |-> reader]]

(***************************************************************************)
(* consume: the one action of the active window.  A native action names an *)
(* attempt of that window whose response is complete (bind_model_action).  *)
(***************************************************************************)
MayBind(adm, w, a) ==
    /\ adm.attempts[a].window = w
    /\ adm.attempts[a].reader = "joined"

\* Mutant: any issued window that has no action yet is consumed, active or not.
MayConsumeLate(adm, w, selected) ==
    /\ ~adm.stopping
    /\ Issued(adm, w)
    /\ selected # NoAttempt => MayBind(adm, w, selected)

MayConsume(adm, w, selected) ==
    /\ ~adm.stopping
    /\ w = adm.active
    /\ selected # NoAttempt => MayBind(adm, w, selected)

Consume(adm, w, selected) ==
    [adm EXCEPT !.accepted[w] = selected, !.active = NoWindow]

(***************************************************************************)
(* close_window, stop_admission, has_unsettled_readers.                    *)
(***************************************************************************)
\* Mutant: a window that timed out stays active.
CloseNothing(adm, w) == adm

CloseWindow(adm, w) == IF adm.active = w THEN [adm EXCEPT !.active = NoWindow] ELSE adm

StopAdmission(adm) == [adm EXCEPT !.stopping = TRUE, !.active = NoWindow]

HasUnsettledReaders(adm) ==
    \E a \in AttemptIds : /\ adm.attempts[a].window # NoWindow
                          /\ adm.attempts[a].reader = "open"

================================================================================
