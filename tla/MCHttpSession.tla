---------------------------- MODULE MCHttpSession ----------------------------
(* Model checking of HttpSession and HttpHandleRequest.  The session does  *)
(* not depend on what is answered, so it is explored with one target only. *)
EXTENDS HttpSession, HttpHandleRequest, TLC

MCInit == Init /\ HandlerInit

MCNext ==
  \/ HandleRequest /\ UNCHANGED vars
  \/ answer # NoAnswer /\ target = <<>> /\ Next /\ UNCHANGED handlerVars
  \/ answer # NoAnswer /\ target # <<>> /\ UNCHANGED <<vars, handlerVars>>

MCSpec == MCInit /\ [][MCNext]_<<vars, handlerVars>> /\ Fairness

(* html/ itself, a directory, files in it and beside it, and a directory   *)
(* with a dot.                                                             *)
MCDisk ==
  (<<>> :> "directory") @@ (<<"index.html">> :> "file") @@ (<<"js">> :> "file")
    @@ (<<"name">> :> "directory") @@ (<<"name", "/", "js">> :> "file")
    @@ (<<"name", "/", "name", "js">> :> "directory")
=============================================================================
