---------------------------- MODULE CoreContract ----------------------------
(***************************************************************************)
(* What the client of nekobox_core counts on (RPC.cpp, mainwindow_rpc.cpp):*)
(* Start and Stop take effect at one moment between call and answer, there *)
(* is one instance at most, a Start that is answered with an error has     *)
(* started none, and when a Stop is answered none runs.  A core that ends  *)
(* takes its instance along and breaks the calls it was handling.          *)
(*                                                                         *)
(* The promise is made to clients that call one after the other and start  *)
(* nothing on top of a running instance.  It is lost with the first call   *)
(* that is not of this kind, and made again by the next core.              *)
(***************************************************************************)
CONSTANTS Clients, Boxes

VARIABLES
    running,    \* the instances that run
    client,     \* client -> what has become of its call
    trusted     \* have the calls to this core been of the kind above

contractVars == <<running, client, trusted>>

Asked == {"starting", "stopping", "stopped"}
Ended == {"ok", "error", "broken"}

Becomes(c, p) == client' = [client EXCEPT ![c] = p]

(* A call between the calls of others loses the promise ...                *)
Ask(c) ==
    /\ client[c] = "idle"
    /\ \E p \in {"starting", "stopping"} : Becomes(c, p)
    /\ trusted' = (trusted /\ \A d \in Clients : client[d] \notin Asked)
    /\ UNCHANGED running

Begin(c) ==
    /\ client[c] = "starting"
    /\ running = {}
    /\ \E b \in Boxes : running' = {b}
    /\ Becomes(c, "ok")
    /\ UNCHANGED trusted

(* ... and so does a Start that finds an instance running.                 *)
StartsNone(c) ==
    /\ client[c] = "starting"
    /\ Becomes(c, "error")
    /\ trusted' = (trusted /\ running = {})
    /\ UNCHANGED running

End(c) ==
    /\ client[c] = "stopping"
    /\ running # {} /\ running' = {}
    /\ Becomes(c, "stopped")
    /\ UNCHANGED trusted

AnswerStop(c) ==
    /\ client[c] \in {"stopping", "stopped"}
    /\ running = {} /\ running' = {}
    /\ \E p \in {"ok", "broken"} : Becomes(c, p)
    /\ UNCHANGED trusted

Read(c) ==
    /\ client[c] \in Ended
    /\ Becomes(c, "idle")
    /\ UNCHANGED <<running, trusted>>

Crash ==
    /\ running' = {}
    /\ client' = [c \in Clients |->
                    IF client[c] \in Asked THEN "broken" ELSE client[c]]
    /\ trusted' = TRUE

(* Without the promise anything may happen.                                *)
Untrusted == ~trusted /\ ~trusted'

Init ==
    /\ running = {}
    /\ client = [c \in Clients |-> "idle"]
    /\ trusted = TRUE

Next ==
    \/ \E c \in Clients : \/ Ask(c) \/ Begin(c) \/ StartsNone(c)
                          \/ End(c) \/ AnswerStop(c) \/ Read(c)
    \/ Crash \/ Untrusted

Spec == Init /\ [][Next]_contractVars
=============================================================================
