----------------------------- MODULE CoreBlocks -----------------------------
(***************************************************************************)
(* The core memory blocks of one agent and scope, the attachments of the   *)
(* blocks to the readers (an agent and its read profile), and the audit    *)
(* events of both. Each request is one transaction of a few statements at  *)
(* READ COMMITTED: what it reads is committed, what it locks or writes it  *)
(* holds until the end.                                                    *)
(***************************************************************************)
EXTENDS Naturals, Sequences, FiniteSets

CONSTANTS Blocks,       \* block_id
          Keys,         \* key of a block
          Contents,     \* content of a block
          Attachments,  \* attachment_id
          Readers,      \* (target_agent_id, read_profile)
          Editors,      \* requests in flight
          NoRow,        \* no row, no snapshot
          MaxEvents     \* bound on the audit events

ASSUME BlocksAssumption ==
  /\ Blocks \cap Attachments = {}
  /\ NoRow \notin Blocks \cup Attachments
  /\ NoRow \notin [key : Keys, content : Contents]
  /\ NoRow \notin [block : Blocks, reader : Readers, by : Editors, active : BOOLEAN]
  /\ MaxEvents \in Nat

VARIABLES blocks,       \* [Blocks -> row of core_memory_blocks]
          attachments,  \* [Attachments -> row of core_memory_block_attachments]
          events,       \* core_memory_block_events in the order of the commits
          edit          \* [Editors -> open transaction]

blockVars == <<blocks, attachments, events, edit>>

BlockRow == [key : Keys, content : Contents]
AttachmentRow == [block : Blocks, reader : Readers, by : Editors, active : BOOLEAN]
NoEdit == [at |-> "idle", type |-> "none", id |-> NoRow, prev |-> NoRow, new |-> NoRow]
Types == {"block_created", "block_updated", "attachment_added", "attachment_removed"}

(* Types. An event is a change of one row.                                 *)
BlocksTypeOK ==
  /\ blocks \in [Blocks -> BlockRow \cup {NoRow}]
  /\ attachments \in [Attachments -> AttachmentRow \cup {NoRow}]
  /\ \A i \in 1..Len(events) :
       /\ events[i].type \in Types
       /\ events[i].id \in Blocks \cup Attachments
       /\ events[i].new \in BlockRow \cup AttachmentRow
  /\ \A w \in Editors : edit[w].at \in {"idle", "fetch", "check", "write", "commit"}

BlocksInit ==
  /\ blocks = [b \in Blocks |-> NoRow]
  /\ attachments = [a \in Attachments |-> NoRow]
  /\ events = <<>>
  /\ edit = [w \in Editors |-> NoEdit]

Begins(w, at, type, id, new) ==
  /\ edit[w].at = "idle" /\ Len(events) < MaxEvents
  /\ edit' = [edit EXCEPT ![w] = [at |-> at, type |-> type, id |-> id, prev |-> NoRow,
                                  new |-> new]]
  /\ UNCHANGED <<blocks, attachments, events>>

Others(w) == {v \in Editors \ {w} : edit[v].at # "idle"}

(* Rows that another transaction has locked or written.                    *)
Locked(w) ==
  {edit[v].id : v \in {v \in Others(w) : edit[v].type # "block_created" /\ edit[v].at # "fetch"}}

-----------------------------------------------------------------------------
(* core_block_upsert without a block_id, and with one.                     *)
insert_core_block(w, b, row) ==
  /\ blocks[b] = NoRow /\ \A v \in Others(w) : edit[v].id # b
  /\ Begins(w, "check", "block_created", b, row)

update_core_block(w, b, row) ==
  /\ blocks[b] # NoRow
  /\ Begins(w, "fetch", "block_updated", b, row)

(* Slip: the row is read without FOR UPDATE.                               *)
fetch_owned_block(w) ==
  /\ edit[w].at = "fetch" /\ edit[w].type = "block_updated"
  /\ edit' = [edit EXCEPT ![w].at = "check", ![w].prev = blocks[edit[w].id]]
  /\ UNCHANGED <<blocks, attachments, events>>

fetch_owned_block_for_update(w) ==
  /\ edit[w].at = "fetch" /\ edit[w].type = "block_updated"
  /\ edit[w].id \notin Locked(w)
  /\ edit' = [edit EXCEPT ![w].at = "check", ![w].prev = blocks[edit[w].id]]
  /\ UNCHANGED <<blocks, attachments, events>>

(* Another block has the key: Error::Conflict, or the unique index refuses. *)
KeyTaken(w) == \E b \in Blocks \ {edit[w].id} : blocks[b] # NoRow /\ blocks[b].key = edit[w].new.key

ensure_no_active_key_conflict(w) ==
  /\ edit[w].at = "check"
  /\ edit' = [edit EXCEPT ![w] = IF KeyTaken(w) THEN NoEdit ELSE [@ EXCEPT !.at = "write"]]
  /\ UNCHANGED <<blocks, attachments, events>>

(* The unique index on the key of active blocks waits for a transaction    *)
(* that takes the key, or gives it up.                                     *)
KeyInDoubt(w) ==
  \E v \in Others(w) : /\ edit[v].at = "commit" /\ edit[v].type \in {"block_created", "block_updated"}
                       /\ \/ edit[v].new.key = edit[w].new.key
                          \/ edit[v].prev # NoRow /\ edit[v].prev.key = edit[w].new.key

WriteBlock(w) ==
  /\ edit[w].at = "write" /\ edit[w].type \in {"block_created", "block_updated"}
  /\ ~KeyInDoubt(w)
  /\ edit' = [edit EXCEPT ![w] = IF KeyTaken(w) THEN NoEdit ELSE [@ EXCEPT !.at = "commit"]]
  /\ UNCHANGED <<blocks, attachments, events>>

-----------------------------------------------------------------------------
(* core_block_attach: the block is active and the reader may read it.      *)
attach(w, a, b, r) ==
  /\ blocks[b] # NoRow
  /\ attachments[a] = NoRow /\ \A v \in Others(w) : edit[v].id # a
  /\ Begins(w, "write", "attachment_added", a,
            [block |-> b, reader |-> r, by |-> w, active |-> TRUE])

SamePlace(row, other) == row.block = other.block /\ row.reader = other.reader

(* ON CONFLICT on the active attachments DO UPDATE: the existing row is    *)
(* taken over, after the transaction that holds it, or that inserts one,   *)
(* has ended.                                                              *)
upsert_core_block_attachment(w) ==
  LET new == edit[w].new
      there == {a \in Attachments : attachments[a] # NoRow /\ attachments[a].active
                                      /\ SamePlace(attachments[a], new)}
  IN /\ edit[w].at = "write" /\ edit[w].type = "attachment_added"
     /\ \A v \in Others(w) : edit[v].at = "commit" /\ edit[v].id \in Attachments =>
          ~SamePlace(edit[v].new, new)
     /\ \E a \in IF there = {} THEN {edit[w].id} ELSE there :
          edit' = [edit EXCEPT ![w].at = "commit", ![w].id = a]
     /\ UNCHANGED <<blocks, attachments, events>>

detach(w, a) ==
  /\ attachments[a] # NoRow
  /\ Begins(w, "fetch", "attachment_removed", a, NoRow)

(* FOR UPDATE, and the update of the locked row; a row that is detached by *)
(* then is no longer found, and the request ends without a change.         *)
detach_core_block_attachment(w) ==
  LET row == attachments[edit[w].id]
  IN /\ edit[w].at = "fetch" /\ edit[w].type = "attachment_removed"
     /\ edit[w].id \notin Locked(w)
     /\ edit' = [edit EXCEPT ![w] =
                   IF row.active THEN [@ EXCEPT !.at = "commit", !.prev = row,
                                                !.new = [row EXCEPT !.active = FALSE]]
                   ELSE NoEdit]
     /\ UNCHANGED <<blocks, attachments, events>>

-----------------------------------------------------------------------------
(* insert_core_block_event in the same transaction, and the commit.        *)
CommitEdit(w) ==
  LET e == edit[w]
  IN /\ e.at = "commit"
     /\ IF e.id \in Blocks
          THEN blocks' = [blocks EXCEPT ![e.id] = e.new] /\ UNCHANGED attachments
          ELSE attachments' = [attachments EXCEPT ![e.id] = e.new] /\ UNCHANGED blocks
     /\ events' = Append(events, [type |-> e.type, id |-> e.id, prev |-> e.prev, new |-> e.new])
     /\ edit' = [edit EXCEPT ![w] = NoEdit]

(* A refusal, a failing statement, a crash.                                *)
RollbackEdit(w) ==
  /\ edit[w].at # "idle"
  /\ edit' = [edit EXCEPT ![w] = NoEdit]
  /\ UNCHANGED <<blocks, attachments, events>>

BlocksNext ==
  \E w \in Editors :
    \/ \E b \in Blocks, row \in BlockRow : insert_core_block(w, b, row) \/ update_core_block(w, b, row)
    \/ fetch_owned_block_for_update(w)
    \/ ensure_no_active_key_conflict(w)
    \/ WriteBlock(w)
    \/ \E a \in Attachments : detach(w, a) \/ \E b \in Blocks, r \in Readers : attach(w, a, b, r)
    \/ upsert_core_block_attachment(w)
    \/ detach_core_block_attachment(w)
    \/ CommitEdit(w)
    \/ RollbackEdit(w)

BlocksSpec == BlocksInit /\ [][BlocksNext]_blockVars

-----------------------------------------------------------------------------
(* What the first n of a sequence of events leave of a row.                *)
Leaves(es, n, x, row) ==
  \/ row = NoRow /\ \A i \in 1..n : es[i].id # x
  \/ \E i \in 1..n : /\ es[i].id = x /\ es[i].new = row
                      /\ \A j \in 1..n : j > i => es[j].id # x

(* The audit history explains the rows: every block and attachment is what *)
(* its last event says, each update and removal starts from what the events *)
(* before it left, nothing follows a removal, a reader has a block attached *)
(* at most once and no two blocks share a key, whichever way requests meet *)
(* (core_block_upsert, core_block_attach, core_block_detach).              *)
BlocksReplay ==
  /\ \A b \in Blocks :
       /\ Leaves(events, Len(events), b, blocks[b])
       /\ \A c \in Blocks \ {b} : blocks[b] = NoRow \/ blocks[c] = NoRow
                                    \/ blocks[b].key # blocks[c].key
  /\ \A a \in Attachments :
       /\ Leaves(events, Len(events), a, attachments[a])
       /\ attachments[a] # NoRow /\ attachments[a].active =>
            \A c \in Attachments \ {a} :
              attachments[c] # NoRow /\ SamePlace(attachments[a], attachments[c]) =>
                ~attachments[c].active
  /\ \A i \in 1..Len(events) :
       /\ events[i].id \in Blocks \/ events[i].type = "attachment_removed" =>
            Leaves(events, i - 1, events[i].id, events[i].prev)
       /\ events[i].type = "attachment_removed" =>
            /\ events[i].prev # NoRow
            /\ \A j \in 1..Len(events) : j > i => events[j].id # events[i].id
=============================================================================
