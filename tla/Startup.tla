------------------------------ MODULE Startup -------------------------------
(***************************************************************************)
(* Start-up of the two kinds of process: RunServer of the logic server     *)
(* (logic_server/main.cc:259-318) and main with RunGrpcServer of a gateway *)
(* (gateway/main.cc:68-102, 370-381), over Config::Load.                   *)
(*                                                                         *)
(* Each step can end the process, which can also end at any other time;    *)
(* whoever starts it again is external.                                    *)
(* BuildAndStart returns a null pointer if the address cannot be used, and *)
(* Wait is called on it all the same.                                      *)
(***************************************************************************)
EXTENDS Integers

CONSTANTS Gateways      \* gateway processes

VARIABLES
    logic,      \* phase of the logic server
    gw,         \* gw[g]: phase of the main thread of gateway g
    push        \* push[g]: phase of its detached thread RunGrpcServer

StartInit ==
    /\ logic = "down"
    /\ gw = [g \in Gateways |-> "down"]
    /\ push = [g \in Gateways |-> "none"]

-----------------------------------------------------------------------------
(* The process of the logic server is started: RunServer is about to load. *)
LogicBegin ==
    /\ logic = "down"
    /\ logic' = "loading"
    /\ UNCHANGED <<gw, push>>

(* Config::Load returns true: a missing key or an unreadable value takes   *)
(* its default.                                                            *)
LogicLoad ==
    /\ logic = "loading"
    /\ logic' = "loaded"
    /\ UNCHANGED <<gw, push>>

(* Load catches an exception, of a file that cannot be read or parsed, and *)
(* returns false: RunServer returns 1 and the process ends.                *)
LogicLoadFails ==
    /\ logic = "loading"
    /\ logic' = "down"
    /\ UNCHANGED <<gw, push>>

(* The S3Client is constructed and CheckConnectivity gets an answer.       *)
LogicCheck ==
    /\ logic = "loaded"
    /\ logic' = "checked"
    /\ UNCHANGED <<gw, push>>

(* The pools are filled, as far as connecting succeeds, and the service    *)
(* started.                                                                *)
LogicServe ==
    /\ logic = "checked"
    /\ logic' = "up"
    /\ UNCHANGED <<gw, push>>

(* The logic server ends while it starts: stoi throws on the port of an    *)
(* endpoint; the storage does not answer (code 42); the server is null.    *)
LogicStartFails ==
    /\ logic \in {"loaded", "checked"}
    /\ logic' = "down"
    /\ UNCHANGED <<gw, push>>

(* The process of a gateway is started.                                    *)
GatewayBegin(g) ==
    /\ gw[g] = "down"
    /\ gw' = [gw EXCEPT ![g] = "loading"]
    /\ UNCHANGED <<logic, push>>

(* Load returns true; the thread is created and detached.                  *)
GatewayLoad(g) ==
    /\ gw[g] = "loading"
    /\ gw' = [gw EXCEPT ![g] = "loaded"]
    /\ push' = [push EXCEPT ![g] = "starting"]
    /\ UNCHANGED logic

(* listen(8000): clients are served from here on.                          *)
Listen(g) ==
    /\ gw[g] = "loaded"
    /\ gw' = [gw EXCEPT ![g] = "serving"]
    /\ UNCHANGED <<logic, push>>

GatewayDown(g) ==
    /\ gw' = [gw EXCEPT ![g] = "down"]
    /\ push' = [push EXCEPT ![g] = "none"]
    /\ UNCHANGED logic

(* Load returns false: main returns 1.                                     *)
GatewayLoadFails(g) == gw[g] = "loading" /\ GatewayDown(g)

(* The port is taken: exit(-1).                                            *)
ListenFails(g) == gw[g] = "loaded" /\ GatewayDown(g)

(* RunGrpcServer gets a server, at any time after Load.                    *)
PushListens(g) ==
    /\ push[g] = "starting"
    /\ push' = [push EXCEPT ![g] = "listening"]
    /\ UNCHANGED <<logic, gw>>

(* Faulty variant of PushFails: the thread ends, the process goes on.      *)
PushFailsQuietly(g) ==
    /\ push[g] = "starting"
    /\ push' = [push EXCEPT ![g] = "none"]
    /\ UNCHANGED <<logic, gw>>

(* RunGrpcServer waits on a null server: the whole gateway goes down, also *)
(* if clients are being served.                                            *)
PushFails(g) == push[g] = "starting" /\ GatewayDown(g)

(* The process ends by a fault or from outside, whatever it is doing.      *)
GatewayKilled(g) == gw[g] # "down" /\ GatewayDown(g)

-----------------------------------------------------------------------------
StartTypeOK ==
    /\ logic \in {"down", "loading", "loaded", "checked", "up"}
    /\ gw \in [Gateways -> {"down", "loading", "loaded", "serving"}]
    /\ push \in [Gateways -> {"none", "starting", "listening"}]

(* A gateway does not go on serving clients without its push service: it   *)
(* gets the service to listen, or goes down (gateway/main.cc:77-79, 95-96, *)
(* where the result of BuildAndStart is not looked at).                    *)
PushServed ==
    \A g \in Gateways :
        gw[g] = "serving" ~> push[g] = "listening" \/ gw[g] = "down"

=============================================================================
