----------------------------- MODULE ZkAdaptor ------------------------------
(***************************************************************************)
(* common/zookeeper/zk_adaptor.cpp: WaitConnected, AddAuth and Close of    *)
(* one adaptor, called by one thread, and the callbacks that ZooKeeper's   *)
(* own threads make meanwhile.  An AutoResetEvent (event.cpp) is its flag  *)
(* m_signaled; its critical sections are atomic.                           *)
(***************************************************************************)
EXTENDS Naturals

CONSTANT MaxEvents     \* bound: changes of the session's state

VARIABLES
    credential,  \* credential_: "none", "malformed" or "good"
    session,     \* zoo_state(zh_), "none" when zh_ is NULL
    events,      \* connected events the watcher has not been called for
    signaled,    \* connected_event_.m_signaled
    user,        \* the thread in WaitConnected: [at, timeout, add_auth]
    ret,         \* what WaitConnected has returned last, with the argument
    callback,    \* the AddAuthCallback: "none", "pending" or "run"
    auth_ret,    \* what the callback has stored
    authorised,  \* the session has been authorised
    changes      \* changes of the session so far

vars == <<credential, session, events, signaled, user, ret, callback,
          auth_ret, authorised, changes>>

\* -1, 0 and a positive timeout.
Timeouts == {"forever", "at once", "some time"}

Idle == [at |-> "idle", timeout |-> "at once", add_auth |-> FALSE]

Return(code) ==
    /\ user' = Idle
    /\ ret' = [code |-> code, add_auth |-> user.add_auth]

-----------------------------------------------------------------------------
(* The thread that calls WaitConnected.                                    *)

\* The call that finds no handle creates one, and it alone authorises.
WaitConnected(timeout) ==
    /\ user.at = "idle"
    /\ user' = [at |-> "state", timeout |-> timeout,
                add_auth |-> session = "none" /\ credential # "none"]
    /\ session' = IF session = "none" THEN "CONNECTING" ELSE session
    /\ UNCHANGED <<credential, events, signaled, ret, callback, auth_ret,
                   authorised, changes>>

\* zookeeper_init returns NULL.
InitFails ==
    /\ user.at = "idle"
    /\ session = "none"
    /\ Return("error")
    /\ UNCHANGED <<credential, session, events, signaled, callback, auth_ret,
                   authorised, changes>>

\* Variant: the event is reset between the look at the state and the wait.
StateThenReset ==
    /\ \/ /\ user.at = "state"
          /\ user' = [user EXCEPT !.at = IF session = "CONNECTED"
                                        THEN "connected" ELSE "reset"]
          /\ UNCHANGED signaled
       \/ /\ user.at = "reset"
          /\ user' = [user EXCEPT !.at = "wait"]
          /\ signaled' = FALSE
    /\ UNCHANGED <<credential, session, events, ret, callback, auth_ret,
                   authorised, changes>>

State ==
    /\ user.at = "state"
    /\ IF session = "CONNECTED"
       THEN user' = [user EXCEPT !.at = "connected"] /\ UNCHANGED ret
       ELSE IF user.timeout = "at once" THEN Return("error")
       ELSE user' = [user EXCEPT !.at = "wait"] /\ UNCHANGED ret
    /\ UNCHANGED <<credential, session, events, signaled, callback, auth_ret,
                   authorised, changes>>

\* Wait, or TimedWait, which a timeout or a spurious wakeup ends as well.
Wait ==
    /\ user.at = "wait"
    /\ signaled \/ user.timeout = "some time"
    /\ signaled' = FALSE
    /\ user' = [user EXCEPT !.at = "connected"]
    /\ UNCHANGED <<credential, session, events, ret, callback, auth_ret,
                   authorised, changes>>

\* The second look at the state, and AddAuth up to its wait.  zoo_add_auth
\* refuses when the session has just been lost for good.
Connected ==
    /\ user.at = "connected"
    /\ \/ session # "CONNECTED" /\ Return("error") /\ UNCHANGED callback
       \/ session = "CONNECTED" /\ ~user.add_auth /\ Return("ZOK")
            /\ UNCHANGED callback
       \/ /\ session = "CONNECTED" /\ user.add_auth
          /\ IF credential = "malformed"
             THEN Return("error") /\ UNCHANGED callback
             ELSE /\ user' = [user EXCEPT !.at = "add_auth"]
                  /\ UNCHANGED <<ret, callback>>
    /\ UNCHANGED <<credential, session, events, signaled, auth_ret,
                   authorised, changes>>

AddAuth ==
    /\ user.at = "add_auth"
    /\ IF session = "EXPIRED"
       THEN Return("error") /\ UNCHANGED callback
       ELSE /\ callback' = "pending"
            /\ user' = [user EXCEPT !.at = "authed_event"]
            /\ UNCHANGED ret
    /\ UNCHANGED <<credential, session, events, signaled, auth_ret,
                   authorised, changes>>

AuthEvent ==
    /\ Return(auth_ret)
    /\ callback' = "none"

AuthEventSet ==
    /\ user.at = "authed_event"
    /\ callback = "run"
    /\ AuthEvent
    /\ UNCHANGED <<credential, session, events, signaled, auth_ret,
                   authorised, changes>>

\* zookeeper_close runs a callback that is pending and waits for one that is
\* running; no callback is made after it.
Close ==
    /\ session' = "none"
    /\ events' = 0
    /\ callback' = "none"
    /\ authorised' = FALSE

\* TimedWait returns false: the time is over, or the wakeup was spurious.
AuthTimeout ==
    /\ user.at = "authed_event"
    /\ callback = "pending"
    /\ Close
    /\ Return("error")
    /\ UNCHANGED <<credential, signaled, auth_ret, changes>>

\* The user closes the adaptor and may connect again.
UserCloses ==
    /\ user.at = "idle"
    /\ session # "none"
    /\ Close
    /\ UNCHANGED <<credential, signaled, user, ret, auth_ret, changes>>

-----------------------------------------------------------------------------
(* ZooKeeper's threads.                                                    *)

Change(state) ==
    /\ changes < MaxEvents
    /\ changes' = changes + 1
    /\ session' = state
    /\ events' = IF state = "CONNECTED" THEN events + 1 ELSE events
    /\ UNCHANGED <<credential, signaled, user, ret, callback, auth_ret>>

Connect == session = "CONNECTING" /\ Change("CONNECTED") /\ UNCHANGED authorised

Lose == session = "CONNECTED" /\ Change("CONNECTING") /\ UNCHANGED authorised

Expire == session = "CONNECTING" /\ Change("EXPIRED") /\ authorised' = FALSE

GlobalWatcher ==
    /\ events > 0
    /\ events' = events - 1
    /\ signaled' = TRUE
    /\ UNCHANGED <<credential, session, user, ret, callback, auth_ret,
                   authorised, changes>>

\* The server accepts the credential or not, or the request is given up.
PassAndSet(rc) ==
    /\ callback = "pending"
    /\ callback' = "run"
    /\ auth_ret' = rc
    /\ authorised' = (authorised \/ rc = "ZOK")
    /\ UNCHANGED <<credential, session, events, signaled, user, ret, changes>>

-----------------------------------------------------------------------------
Init ==
    /\ credential \in {"none", "malformed", "good"}
    /\ session = "none"
    /\ events = 0
    /\ signaled = FALSE
    /\ user = Idle
    /\ ret = [code |-> "error", add_auth |-> FALSE]
    /\ callback = "none"
    /\ auth_ret = "error"
    /\ authorised = FALSE
    /\ changes = 0

Next ==
    \/ \E timeout \in Timeouts : WaitConnected(timeout)
    \/ InitFails \/ UserCloses
    \/ State \/ Wait \/ Connected \/ AddAuth \/ AuthEventSet \/ AuthTimeout
    \/ Connect \/ Lose \/ Expire \/ GlobalWatcher
    \/ \E rc \in {"ZOK", "error"} : PassAndSet(rc)

Spec == Init /\ [][Next]_vars

-----------------------------------------------------------------------------
\* The callback of zoo_add_auth holds pointers to locals of AddAuth
\* (authed_event, auth_ret): it can only run while AddAuth waits for it.
NoCallbackAfterReturn == callback # "none" => user.at = "authed_event"

\* A thread never waits for a connection that has been announced: if the
\* session is connected and the watcher has been called for it, the event is
\* set, whenever between zoo_state and Wait that has happened.
NoConnectMissed ==
    user.at = "wait" /\ session = "CONNECTED" /\ events = 0 => signaled

\* When the call that has created the handle returns ZOK, the server has
\* accepted the credential.
OkMeansAuthorised ==
    ret.code = "ZOK" /\ ret.add_auth /\ user.at = "idle" =>
        authorised \/ session # "CONNECTED"
=============================================================================
