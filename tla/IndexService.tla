---------------------------- MODULE IndexService ----------------------------
(***************************************************************************)
(* What plugin::open_file and plugin::close_file promise, with no cache:   *)
(* an open names a file and, unless it fails, ends in a session that shows *)
(* an index of that file.  Every item of the index shows a state the file  *)
(* had at some moment between the start of the open and its end, whoever   *)
(* read it, and stays the same for the whole session.  The specification   *)
(* follows one item, any of them; two items may show different states.     *)
(***************************************************************************)
EXTENDS Naturals

CONSTANTS Threads, Files, NoFile, MaxVersion

VARIABLES
  version,  \* [Files -> state of the file on disk]
  request,  \* [Threads -> the open in progress: its file, and the state
            \*             of the file when the open looked at it first]
  session   \* [Threads -> the open archive: its file, and the state shown]

vars == <<version, request, session>>

NoRequest == [file |-> NoFile, from |-> 0]
NoSession == [file |-> NoFile, content |-> 0]

Init ==
  /\ version = [f \in Files |-> 1]
  /\ request = [t \in Threads |-> NoRequest]
  /\ session = [t \in Threads |-> NoSession]

Modify(f) ==
  /\ version[f] < MaxVersion
  /\ version' = [version EXCEPT ![f] = @ + 1]
  /\ UNCHANGED <<request, session>>

Ask(t, f) ==
  /\ request[t] = NoRequest /\ session[t] = NoSession
  /\ request' = [request EXCEPT ![t] = [file |-> f, from |-> version[f]]]
  /\ UNCHANGED <<version, session>>

Grant(t) ==
  /\ request[t] # NoRequest
  /\ \E c \in request[t].from .. version[request[t].file] :
       session' = [session EXCEPT ![t] = [file |-> request[t].file, content |-> c]]
  /\ request' = [request EXCEPT ![t] = NoRequest]
  /\ UNCHANGED version

Refuse(t) ==
  /\ request[t] # NoRequest
  /\ request' = [request EXCEPT ![t] = NoRequest]
  /\ UNCHANGED <<version, session>>

Close(t) ==
  /\ session[t] # NoSession
  /\ session' = [session EXCEPT ![t] = NoSession]
  /\ UNCHANGED <<version, request>>

(* The host unloads the plugin while nothing is being opened.              *)
Unload ==
  /\ request = [t \in Threads |-> NoRequest]
  /\ session' = [t \in Threads |-> NoSession]
  /\ UNCHANGED <<version, request>>

Next ==
  \/ \E f \in Files : Modify(f)
  \/ \E t \in Threads : Grant(t) \/ Refuse(t) \/ Close(t) \/ \E f \in Files : Ask(t, f)
  \/ Unload

Spec == Init /\ [][Next]_vars
=============================================================================
