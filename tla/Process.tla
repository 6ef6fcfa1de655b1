------------------------------ MODULE Process ------------------------------
(***************************************************************************)
(* The life of the process: Reload's goroutine in the program that         *)
(* cmd/golb/main.go runs, with its main, admin and metrics servers, the    *)
(* shutdown after SIGTERM or SIGINT, and the end of main.                  *)
(*                                                                         *)
(* Requests are abstracted to whether a server that accepts no more still  *)
(* has some: until then any number may be in flight.                       *)
(***************************************************************************)
EXTENDS Reload

VARIABLES
    server,  \* what each http.Server does
    closing, \* how far the shutdown has come in Order
    expired, \* the deadline of shutCtx has passed
    exited   \* main has returned, and with it the process has ended

servers     == <<server, closing, expired, exited>>
processVars == <<vars, servers>>

-----------------------------------------------------------------------------
Servers == {"metrics", "admin", "main"}

\* The three calls of Shutdown.  Mutant: the admin server comes last.
AdminLast == <<"metrics", "main", "admin">>
Order     == <<"metrics", "admin", "main">>

\* Ports of 0 mean no such server.
Configured(c) ==
    {"main"} \cup (IF c["admin.port"] # 0 THEN {"admin"} ELSE {})
             \cup (IF c["metrics.enabled"] /\ c["metrics.port"] # 0
                   THEN {"metrics"} ELSE {})

ProcessTypeOK ==
    /\ TypeOK
    /\ server \in [Servers -> {"none", "open", "draining", "closed"}]
    /\ closing \in 1 .. Len(Order) + 1
    /\ closing > 1 => stage = "shutdown"
    /\ {expired, exited} \subseteq BOOLEAN

ProcessInit ==
    /\ Init
    /\ server = [s \in Servers |-> IF s \in Configured(currentCfg)
                                   THEN "open" ELSE "none"]
    /\ closing = 1
    /\ expired = FALSE
    /\ exited = FALSE

-----------------------------------------------------------------------------
Closing == IF closing <= Len(Order) THEN Order[closing] ELSE "nothing"

\* Shutdown closes the listener at once; requests in flight go on.
CloseListener ==
    /\ stage = "shutdown" /\ ~exited
    /\ Closing # "nothing" /\ server[Closing] = "open"
    /\ \E now \in {"draining", "closed"} :
           server' = [server EXCEPT ![Closing] = now]
    /\ UNCHANGED <<vars, closing, expired, exited>>

\* The last request of a server that accepts no more gets its response.
LastRequestEnds(s) ==
    /\ ~exited
    /\ server[s] = "draining"
    /\ server' = [server EXCEPT ![s] = "closed"]
    /\ UNCHANGED <<vars, closing, expired, exited>>

\* Mutant of MayReturn: a Shutdown without a deadline.
Drained(s)   == server[s] # "draining"
MayReturn(s) == server[s] # "draining" \/ expired

\* Shutdown returns, or there is no such server to shut down.
ShutdownReturns ==
    /\ stage = "shutdown" /\ ~exited
    /\ Closing # "nothing" /\ server[Closing] # "open"
    /\ MayReturn(Closing)
    /\ closing' = closing + 1
    /\ UNCHANGED <<vars, server, expired, exited>>

\* The 30 seconds run from the beginning of the shutdown, for all of it.
Expire ==
    /\ stage = "shutdown" /\ ~exited
    /\ ~expired
    /\ expired' = TRUE
    /\ UNCHANGED <<vars, server, closing, exited>>

\* ListenAndServe returns ErrServerClosed as soon as the listener is closed,
\* and main returns.
MainReturns ==
    /\ ~exited
    /\ server["main"] # "open"
    /\ exited' = TRUE
    /\ UNCHANGED <<vars, server, closing, expired>>

\* What the modules before this one describe, while the process runs.
Reloading == /\ ~exited
             /\ Goroutine
             /\ UNCHANGED servers

AdminRequest == /\ ~exited
                /\ server["admin"] \in {"open", "draining"}
                /\ Admin
                /\ UNCHANGED servers

Outside == /\ ~exited
           /\ Operator
           /\ UNCHANGED servers

Closes == CloseListener \/ ShutdownReturns

ProcessNext == \/ Reloading \/ AdminRequest \/ Outside
               \/ Closes \/ Expire \/ MainReturns
               \/ \E s \in Servers : LastRequestEnds(s)

ProcessSpec == ProcessInit /\ [][ProcessNext]_processVars

(***************************************************************************)
(* Both goroutines run and the timer of shutCtx fires.  Nothing makes a    *)
(* request in flight end.                                                  *)
(***************************************************************************)
FairProcess == /\ ProcessSpec
               /\ WF_processVars(Reloading \/ Closes)
               /\ WF_processVars(Expire)
               /\ WF_processVars(MainReturns)

-----------------------------------------------------------------------------
(***************************************************************************)
(* "Admin drains first so no backend mutations race with the main server   *)
(* winding down" (2026-03-30-v1-design.md:270): from the moment the main   *)
(* server stops accepting, nobody changes pool, algorithm or health check, *)
(* neither admin requests (main.go:328-333) nor a reload, however it and   *)
(* the signals were ordered.  Only an admin request that outlives the      *)
(* deadline can.                                                           *)
(***************************************************************************)
QuietDrain ==
    [][server["main"] # "open" /\ ~expired => UNCHANGED running]_processVars

(***************************************************************************)
(* A SIGTERM that got into the channel ends the process (main.go:316-355): *)
(* behind a reload that still runs, and although requests of any server    *)
(* may never end.                                                          *)
(***************************************************************************)
TermEnds == quit = <<"SIGTERM">> ~> exited

(***************************************************************************)
(* "mainSrv.Shutdown(shutCtx) - drain LB traffic (in-flight requests       *)
(* complete)" (2026-03-30-v1-design.md:267): the process does not end      *)
(* before the requests in flight or the deadline have.                     *)
(***************************************************************************)
RequestsComplete == exited => expired \/ server["main"] = "closed"
=============================================================================
