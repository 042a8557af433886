------------------------- MODULE ConnectionRegistry -------------------------
(***************************************************************************)
(* What the socket table promises, without hooks, locks or memory: what is *)
(* recorded of each handle of the program ("monitor active connections of  *)
(* a program", README.md:4), however many threads open, use and close.     *)
(*                                                                         *)
(* A record says what its handle stood for at the moment it was made, is   *)
(* made only when there is none, and never changes.  Only a close of that  *)
(* handle drops it, some time after the handle was closed in the kernel,   *)
(* and each close drops the one record that is there then, or none.        *)
(* Framework implements this module.                                       *)
(***************************************************************************)
CONSTANTS
  Threads,     \* threads of the program
  Handles,     \* SOCKET values
  Conns,       \* connections that can be established in a run
  NoConn,      \* the handle is not open
  Unconnected, \* the handle is open and has no peer
  Absent       \* the handle has no record

VARIABLES
  conn,   \* what each handle stands for
  record, \* what the record of each handle says
  closing \* threads whose close of the handle has still to drop its record

registry == <<conn, record, closing>>

Init ==
  /\ conn \in [Handles -> Conns \cup {NoConn, Unconnected}]
  /\ record = [h \in Handles |-> Absent]
  /\ closing = [h \in Handles |-> {}]

Open(h) ==
  /\ conn[h] = NoConn
  /\ \E c \in Conns \cup {Unconnected} : conn' = [conn EXCEPT ![h] = c]
  /\ UNCHANGED <<record, closing>>

Connect(h) ==
  /\ conn[h] = Unconnected
  /\ \E c \in Conns : conn' = [conn EXCEPT ![h] = c]
  /\ UNCHANGED <<record, closing>>

Close(t, h) ==
  /\ \A g \in Handles : t \notin closing[g]
  /\ conn' = [conn EXCEPT ![h] = NoConn]
  /\ closing' = [closing EXCEPT ![h] = @ \cup {t}]
  /\ UNCHANGED record

Monitor(h) ==
  /\ record[h] = Absent
  /\ record' = [record EXCEPT ![h] = conn[h]]
  /\ UNCHANGED <<conn, closing>>

Forget(t, h) ==
  /\ t \in closing[h]
  /\ record' = [record EXCEPT ![h] = Absent]
  /\ closing' = [closing EXCEPT ![h] = @ \ {t}]
  /\ UNCHANGED conn

Next == \E h \in Handles : \/ Open(h) \/ Connect(h) \/ Monitor(h)
                           \/ \E t \in Threads : Close(t, h) \/ Forget(t, h)

Spec == Init /\ [][Next]_registry
=============================================================================
