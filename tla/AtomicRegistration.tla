------------------------- MODULE AtomicRegistration -------------------------
(***************************************************************************)
(* What the registration of an emitted thread promises to whoever reads    *)
(* the launch responses and the session index of an orchestration: the     *)
(* session a child is bound to changes in both at once, whatever errors    *)
(* and crashes happen on the way, and no other update is undone by it      *)
(* (src/tools/orchestration_runtime.py: _write_json_transaction).          *)
(***************************************************************************)
CONSTANT Children  \* the agent_run_ids of the orchestration

VARIABLES response,  \* the session the launch response of a child names
          index      \* the session and status of its row of the session index

Sessions == {"none", "provisional", "thread"}
Row(s, done) == [session |-> s, done |-> done]
Rows == [session : Sessions, done : BOOLEAN]

Init ==
  /\ response = [c \in Children |-> "none"]
  /\ index = [c \in Children |-> Row("none", FALSE)]

(* record_launch writes the response first, and then the row.              *)
WriteResponse(c) ==
  /\ response[c] = "none"
  /\ response' = [response EXCEPT ![c] = "provisional"]
  /\ UNCHANGED index

(* A row is written for the session its child is bound to.                 *)
WriteRow(c) ==
  /\ response[c] # "none"
  /\ \E done \in BOOLEAN : index' = [index EXCEPT ![c] = Row(response[c], done)]
  /\ UNCHANGED response

Bind(c) ==
  /\ response[c] # "none"
  /\ response' = [response EXCEPT ![c] = "thread"]
  /\ index' = [index EXCEPT ![c] = Row("thread", FALSE)]

Next == \E c \in Children : WriteResponse(c) \/ WriteRow(c) \/ Bind(c)

Spec == Init /\ [][Next]_<<response, index>>
=============================================================================
