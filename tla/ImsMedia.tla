------------------------------ MODULE ImsMedia ------------------------------
(***************************************************************************)
(* src/hals/radio/ImsMedia.cpp: the IMS media HAL stub.  IImsMedia keeps  *)
(* the listener given to setListener; openSession answers                 *)
(* onOpenSessionSuccess with a new ImsMediaSession and closeSession       *)
(* answers onSessionClosed, both through that listener.  A session keeps  *)
(* its own listener and answers modifySession through it; its other      *)
(* methods return ok and change nothing.                                  *)
(*                                                                         *)
(* Both listeners start null.  A call that reaches NOT_NULL on a null     *)
(* listener ends the process: whether NOT_NULL (debug.h, not in this      *)
(* tree) aborts or returns the null pointer, the method call through it   *)
(* crashes.  The telephony client is the environment: it may call any     *)
(* method in any order, passing one of Listeners.  It cannot pass null:   *)
(* the listener arguments are non-@nullable AIDL interfaces, which the    *)
(* generated stub refuses to unparcel as null, so the NOT_NULL of         *)
(* IImsMedia::setListener never fires.                                    *)
(***************************************************************************)
EXTENDS Integers, Sequences

CONSTANTS
    Listeners,    \* listener objects the client may pass (model values)
    NULL,         \* the null shared_ptr
    SessionIds,   \* session ids the client may use
    MaxCalls      \* calls the client makes in a behaviour

ASSUME NULL \notin Listeners /\ MaxCalls \in Nat

VARIABLES
    mMediaListener,   \* IImsMedia's listener
    sessions,         \* sessions[i]: mSessionListener of the i-th session made
    answers,          \* callbacks made: [to, what, id]
    crashed,          \* Alive, or the object whose null listener was used
    everSet,          \* objects a client ever gave a non-null listener (history)
    calls             \* binder calls made so far

\* The objects a client calls: IImsMedia itself is 0, sessions are 1, 2, ...
\* in the order openSession made them.
Media == 0

\* crashed while the process is alive.
Alive == -1

imsVars == <<mMediaListener, sessions, answers, crashed, everSet, calls>>

ImsInit ==
    /\ mMediaListener = NULL
    /\ sessions = <<>>
    /\ answers = <<>>
    /\ crashed = Alive
    /\ everSet = {}
    /\ calls = 0

\* Every binder call: the process is alive and the client has calls left.
Call == crashed = Alive /\ calls < MaxCalls /\ calls' = calls + 1

\* A call through NOT_NULL(l): crash if l is null, else the callback.
Through(l, obj, what, id) ==
    IF l = NULL
    THEN crashed' = obj /\ UNCHANGED answers
    ELSE answers' = Append(answers, [to |-> l, what |-> what, id |-> id])
         /\ UNCHANGED crashed

\* A slip: the listener is checked but never stored.
setListenerNotStored(l) ==
    /\ Call
    /\ everSet' = everSet \cup {Media}
    /\ UNCHANGED <<mMediaListener, sessions, answers, crashed>>

\* IImsMedia::setListener: mMediaListener = NOT_NULL(mediaListener).
setListener(l) ==
    /\ Call
    /\ mMediaListener' = l
    /\ everSet' = everSet \cup {Media}
    /\ UNCHANGED <<sessions, answers, crashed>>

\* openSession: onOpenSessionSuccess(sessionId, a new ImsMediaSession).
openSession(id) ==
    /\ Call
    /\ Through(mMediaListener, Media, "onOpenSessionSuccess", id)
    /\ sessions' = IF mMediaListener = NULL THEN sessions
                   ELSE Append(sessions, NULL)
    /\ UNCHANGED <<mMediaListener, everSet>>

\* closeSession: onSessionClosed(sessionId).
closeSession(id) ==
    /\ Call
    /\ Through(mMediaListener, Media, "onSessionClosed", id)
    /\ UNCHANGED <<mMediaListener, sessions, everSet>>

\* ImsMediaSession::setListener stores the listener.
sessionSetListener(s, l) ==
    /\ Call
    /\ sessions' = [sessions EXCEPT ![s] = l]
    /\ everSet' = everSet \cup {s}
    /\ UNCHANGED <<mMediaListener, answers, crashed>>

\* ImsMediaSession::modifySession: onModifySessionResponse(config, NONE).
modifySession(s) ==
    /\ Call
    /\ Through(sessions[s], s, "onModifySessionResponse", s)
    /\ UNCHANGED <<mMediaListener, sessions, everSet>>

\* sendDtmf, startDtmf, stopDtmf, sendHeaderExtension,
\* setMediaQualityThreshold, requestRtpReceptionStats, adjustDelay.
sessionNoOp(s) ==
    /\ Call
    /\ UNCHANGED <<mMediaListener, sessions, answers, crashed, everSet>>

ImsNext ==
    \/ \E l \in Listeners : setListener(l)
    \/ \E id \in SessionIds : openSession(id) \/ closeSession(id)
    \/ \E s \in DOMAIN sessions :
          \/ \E l \in Listeners : sessionSetListener(s, l)
          \/ modifySession(s)
          \/ sessionNoOp(s)

ImsSpec == ImsInit /\ [][ImsNext]_imsVars

(***************************************************************************)
(* Properties.                                                             *)
(***************************************************************************)

\* The HAL process dies only through a call on an object (IImsMedia or a
\* session) whose listener no client has ever set: once setListener has
\* been given a listener, openSession and closeSession always answer, and
\* so does modifySession on a session whose listener was set, whatever
\* calls came in between.
CrashOnlyWithoutListener == crashed # Alive => crashed \notin everSet

=============================================================================
