----------------------------- MODULE TaskTable -----------------------------
(***************************************************************************)
(* What a control table promises of one stream key.  At most one task owns *)
(* the key; whoever looks at the table sees the task that runs and was not *)
(* told to stop; a task that ends gives up the key only if it still owns   *)
(* it ("Used to prevent an old task from removing a newer proxy with the   *)
(* same local stream key after a rapid stop/start cycle",                  *)
(* core/src/stream_proxy.rs:31).                                           *)
(***************************************************************************)
CONSTANTS Tasks, NoTask

VARIABLES owner,   \* the task the table lists, or NoTask
          life     \* life[t]: "new", "active", "cancelled" or "done"

TableInit ==
  /\ owner = NoTask
  /\ life = [t \in Tasks |-> "new"]

Add(t) ==
  /\ owner = NoTask
  /\ life[t] = "new"
  /\ owner' = t
  /\ life' = [life EXCEPT ![t] = "active"]

Cancel(t) ==
  /\ owner = t
  /\ owner' = NoTask
  /\ life' = [life EXCEPT ![t] = "cancelled"]

Finish(t) ==
  /\ life[t] \in {"active", "cancelled"}
  /\ owner' = IF owner = t THEN NoTask ELSE owner
  /\ life' = [life EXCEPT ![t] = "done"]

TableNext == \E t \in Tasks : Add(t) \/ Cancel(t) \/ Finish(t)

TableSpec == TableInit /\ [][TableNext]_<<owner, life>>
=============================================================================
