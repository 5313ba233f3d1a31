-------------------------- MODULE DrmEventListener --------------------------
(***************************************************************************)
(* src/hals/hwc3/DrmEventListener.cpp: the composer's display-hotplug     *)
(* listener.  create/init opens and binds a NETLINK_KOBJECT_UEVENT socket, *)
(* puts it and the DRM fd in mMonitoredFds and starts a thread.  The      *)
(* thread selects once on both fds; if the uevent socket is not among the *)
(* ready fds it returns.  Otherwise it reads uevents in a loop and calls  *)
(* the callback for every one that names a drm_minor device and carries    *)
(* HOTPLUG=1; a read that returns 0 or an error ends the thread.          *)
(* The string test of lines 90-92 is IsHotplug.                          *)
(*                                                                         *)
(* The kernel is the environment: it queues uevents on the socket (at     *)
(* most QueueCap of them; a uevent that does not fit is dropped and the   *)
(* next recv fails with ENOBUFS), and the DRM fd may become readable when *)
(* a DRM event is pending.  A uevent is abstracted to which of the two    *)
(* strings it contains.                                                    *)
(***************************************************************************)
EXTENDS Naturals, Sequences

CONSTANTS
    MaxUevents,      \* uevents the kernel sends in a behaviour
    QueueCap,        \* uevents the socket's receive buffer holds
    DrmFdEvents      \* whether the DRM fd may become readable: subset of BOOLEAN

ASSUME MaxUevents \in Nat /\ QueueCap \in Nat \ {0}
ASSUME DrmFdEvents \subseteq BOOLEAN /\ FALSE \in DrmFdEvents

\* "DEVTYPE=drm_minor" and "HOTPLUG=1" present or not in the message.
Uevents == [drm : BOOLEAN, hotplug : BOOLEAN]

VARIABLES
    pc,          \* "init", "failed" (create returned nullptr), "select", "read", "exited"
    queue,       \* uevents received by the socket and not yet read
    overflow,    \* a uevent was dropped: the next recv fails with ENOBUFS
    drmReady,    \* the DRM fd is readable
    sent,        \* uevents the kernel has sent
    hotplugs,    \* drm_minor HOTPLUG=1 uevents queued on the socket
    dropped,     \* history: the kernel has dropped a uevent on overflow
    callbacks    \* times mOnEventCallback has run

dvars == <<pc, queue, overflow, drmReady, sent, hotplugs, dropped, callbacks>>

DrmInit ==
    /\ pc = "init"
    /\ queue = <<>>
    /\ overflow = FALSE
    /\ drmReady = FALSE
    /\ sent = 0
    /\ hotplugs = 0
    /\ dropped = FALSE
    /\ callbacks = 0

IsHotplug(u) == u.drm /\ u.hotplug

\* create -> init: socket() or bind() fails and create returns nullptr, or
\* the fd set is built and the thread started.
init ==
    /\ pc = "init"
    /\ \/ pc' = "failed"
       \/ pc' = "select"
    /\ UNCHANGED <<queue, overflow, drmReady, sent, hotplugs, dropped, callbacks>>

\* The kernel broadcasts a uevent to the bound socket: it is queued, or
\* dropped when the receive buffer is full.
KernelUevent(u) ==
    /\ pc \notin {"init", "failed"}
    /\ sent < MaxUevents
    /\ sent' = sent + 1
    /\ IF Len(queue) < QueueCap
       THEN /\ queue' = Append(queue, u)
            /\ hotplugs' = hotplugs + (IF IsHotplug(u) THEN 1 ELSE 0)
            /\ UNCHANGED <<overflow, dropped>>
       ELSE /\ overflow' = TRUE
            /\ dropped' = TRUE
            /\ UNCHANGED <<queue, hotplugs>>
    /\ UNCHANGED <<pc, drmReady, callbacks>>

\* A DRM event becomes pending on the DRM fd.
DrmFdReadable ==
    /\ TRUE \in DrmFdEvents
    /\ pc \notin {"init", "failed"}
    /\ ~drmReady
    /\ drmReady' = TRUE
    /\ UNCHANGED <<pc, queue, overflow, sent, hotplugs, dropped, callbacks>>

EventFdReadable == queue # <<>> \/ overflow

\* select() returns once either fd is readable (EINTR restarts it); the
\* loop goes on only if mEventFd is in the returned set.
threadSelect ==
    /\ pc = "select"
    /\ EventFdReadable \/ drmReady
    /\ pc' = IF EventFdReadable THEN "read" ELSE "exited"
    /\ UNCHANGED <<queue, overflow, drmReady, sent, hotplugs, dropped, callbacks>>

\* One read() of the uevent socket: an ENOBUFS error returns from the
\* thread; a message runs the callback if it has both strings.
\* A slip: a uevent without both strings ends the loop (return for continue).
threadReadStopOnOther ==
    /\ pc = "read"
    /\ EventFdReadable
    /\ IF overflow
       THEN pc' = "exited" /\ overflow' = FALSE /\ UNCHANGED <<queue, callbacks>>
       ELSE /\ queue' = Tail(queue)
            /\ callbacks' = callbacks + (IF IsHotplug(Head(queue)) THEN 1 ELSE 0)
            /\ pc' = IF IsHotplug(Head(queue)) THEN pc ELSE "exited"
            /\ UNCHANGED overflow
    /\ UNCHANGED <<drmReady, sent, hotplugs, dropped>>

\* A slip: the loop returns after the first hotplug it reports.
threadReadStopAfterCallback ==
    /\ pc = "read"
    /\ EventFdReadable
    /\ IF overflow
       THEN pc' = "exited" /\ overflow' = FALSE /\ UNCHANGED <<queue, callbacks>>
       ELSE /\ queue' = Tail(queue)
            /\ callbacks' = callbacks + (IF IsHotplug(Head(queue)) THEN 1 ELSE 0)
            /\ pc' = IF IsHotplug(Head(queue)) THEN "exited" ELSE pc
            /\ UNCHANGED overflow
    /\ UNCHANGED <<drmReady, sent, hotplugs, dropped>>

threadRead ==
    /\ pc = "read"
    /\ EventFdReadable
    /\ IF overflow
       THEN pc' = "exited" /\ overflow' = FALSE /\ UNCHANGED <<queue, callbacks>>
       ELSE /\ queue' = Tail(queue)
            /\ callbacks' = callbacks + (IF IsHotplug(Head(queue)) THEN 1 ELSE 0)
            /\ UNCHANGED <<pc, overflow>>
    /\ UNCHANGED <<drmReady, sent, hotplugs, dropped>>

DrmNext ==
    \/ init
    \/ \E u \in Uevents : KernelUevent(u)
    \/ DrmFdReadable
    \/ threadSelect
    \/ threadRead

\* The listener thread is scheduled whenever it can run.
DrmSpec == DrmInit /\ [][DrmNext]_dvars /\ WF_dvars(threadSelect) /\ WF_dvars(threadRead)

(***************************************************************************)
(* Properties.                                                             *)
(***************************************************************************)

\* The listener thread stops only because of one of the two faults the
\* code does not survive: the DRM fd woke the single select (line 69) or
\* the kernel dropped a uevent, so that a read failed with ENOBUFS (line
\* 79).  No sequence of queued uevents, hotplug or not, ends the read
\* loop, and a select that sees mEventFd ready always enters it.
ExitOnlyOnFault == pc = "exited" => drmReady \/ dropped

\* Every hotplug uevent the socket receives (is queued, not dropped) after
\* the listener was created is eventually reported through the callback:
\* the thread keeps listening.
HotplugDelivered ==
    \A n \in 1 .. MaxUevents : hotplugs >= n ~> callbacks >= n

=============================================================================
