----------------------------- MODULE SessionRows -----------------------------
(***************************************************************************)
(* The rows of table sessions at Supabase, as main/http_server.c keeps     *)
(* them up to date through main/supabase_client.c.  A session has a row    *)
(* under its token.  Three tasks write it: the one of the update queue,    *)
(* and, past the queue, the HTTP server's after a confirmation and the     *)
(* heartbeat's.  A post takes seconds, sessions end meanwhile, and no post *)
(* that fails is repeated.                                                 *)
(*                                                                         *)
(* Supabase is external: a post that arrives replaces the row; one that    *)
(* fails may have arrived, before it returned.  Tokens are random and      *)
(* taken to be different.                                                  *)
(***************************************************************************)
EXTENDS Integers, Sequences

CONSTANTS
  Token,      \* session tokens, each used for one session
  UpdateQueue \* length of s_supabase_update_queue

ASSUME SessionRowsAssumption ==
  UpdateQueue \in Nat \ {0} /\ "none" \notin Token

VARIABLES
  life,      \* of each token's session in sessions[]
  rows,      \* status of its row, "none" without one
  updates,   \* s_supabase_update_queue
  posting,   \* what the queue's task is posting, NoUpdate when it waits
  direct,    \* the token each of the other two tasks is posting as active
  estranged  \* ghost: an update of the token was dropped or failed, or its
             \* session ended while a direct post was under way

rowVars == <<life, rows, updates, posting, direct, estranged>>

NoUpdate == [token |-> "none", status |-> "none"]
NoToken == "none"
Poster == {"httpd", "heartbeat"}
Closing == {"disconnected", "expired"}
Update == [token : Token, status : Closing \cup {"active"}]

(* Every variable keeps its type.                                          *)
RowsTypeOK ==
  /\ life \in [Token -> {"unused", "running", "revoked", "gone"}]
  /\ rows \in [Token -> Closing \cup {"active", "none"}]
  /\ updates \in Seq(Update) /\ Len(updates) <= UpdateQueue
  /\ posting \in Update \cup {NoUpdate}
  /\ direct \in [Poster -> Token \cup {NoToken}]
  /\ estranged \subseteq Token

RowsInit ==
  /\ life = [t \in Token |-> "unused"]
  /\ rows = [t \in Token |-> "none"]
  /\ updates = <<>>
  /\ posting = NoUpdate
  /\ direct = [p \in Poster |-> NoToken]
  /\ estranged = {}

Full == Len(updates) = UpdateQueue

\* Mutation: an update overtakes those that wait (xQueueSendToFront).
Enqueued_Front(update) == <<update>> \o updates

Enqueued(update) == Append(updates, update)

\* Mutation: nobody looks whether the queue has room.
QueueUpdate_Always(t, status) ==
  updates' = Enqueued([token |-> t, status |-> status])

\* queue_supabase_session_update: a full queue drops it.
QueueUpdate(t, status) ==
  updates' = IF Full THEN updates ELSE Enqueued([token |-> t, status |-> status])

Directly == {direct[p] : p \in Poster}

-----------------------------------------------------------------------------
(* Sessions.                                                               *)

\* confirm_handler starts the session, or finds it running, and posts it.
ConfirmSession(t) ==
  /\ life[t] \in {"unused", "running"} /\ direct["httpd"] = NoToken
  /\ life' = [life EXCEPT ![t] = "running"]
  /\ direct' = [direct EXCEPT !["httpd"] = t]
  /\ UNCHANGED <<rows, updates, posting, estranged>>

\* handle_client_connect does so with the queue.
ResumeSession(t) ==
  /\ life[t] \in {"unused", "running"}
  /\ life' = [life EXCEPT ![t] = "running"]
  /\ QueueUpdate(t, "active")
  /\ estranged' = estranged \cup {u \in {t} : Full}
  /\ UNCHANGED <<rows, posting, direct>>

\* revoke_session: the client left, or the time is over.
RevokeSession(t, status) ==
  /\ life[t] = "running"
  /\ life' = [life EXCEPT ![t] = "revoked"]
  /\ QueueUpdate(t, status)
  /\ estranged' = estranged \cup {u \in {t} : Full \/ t \in Directly}
  /\ UNCHANGED <<rows, posting, direct>>

\* refresh_portal_auth_state and start_or_resume_session end a session that
\* has run out, or give its slot away, and tell nobody.
DropSession(t) ==
  /\ life[t] = "running"
  /\ life' = [life EXCEPT ![t] = "gone"]
  /\ UNCHANGED <<rows, updates, posting, direct, estranged>>

\* The heartbeat found the session running.
BeatSession(t) ==
  /\ life[t] = "running" /\ direct["heartbeat"] = NoToken
  /\ direct' = [direct EXCEPT !["heartbeat"] = t]
  /\ UNCHANGED <<life, rows, updates, posting, estranged>>

-----------------------------------------------------------------------------
(* Posts.                                                                  *)

\* supabase_update_task takes an update from the queue.
TakeUpdate ==
  /\ posting = NoUpdate /\ updates # <<>>
  /\ posting' = Head(updates)
  /\ updates' = Tail(updates)
  /\ UNCHANGED <<life, rows, direct, estranged>>

\* perform_supabase_session_update: the status of the row it writes
Written(update) == update.status

\* Its post ends.
UpdatePosted ==
  /\ posting # NoUpdate
  /\ posting' = NoUpdate
  /\ rows' = [rows EXCEPT ![posting.token] = Written(posting)]
  /\ UNCHANGED <<life, updates, direct, estranged>>

UpdateFailed ==
  /\ posting # NoUpdate
  /\ posting' = NoUpdate
  /\ \/ rows' = [rows EXCEPT ![posting.token] = Written(posting)]
     \/ UNCHANGED rows
  /\ estranged' = estranged \cup {posting.token}
  /\ UNCHANGED <<life, updates, direct>>

\* A direct post ends; its error is logged.
DirectEnds(p) ==
  /\ direct[p] # NoToken
  /\ direct' = [direct EXCEPT ![p] = NoToken]
  /\ \/ rows' = [rows EXCEPT ![direct[p]] = "active"]
     \/ UNCHANGED rows
  /\ UNCHANGED <<life, updates, posting, estranged>>

\* A restart forgets sessions, queue and posts; the rows stay.
RowsRestart ==
  /\ life' = [t \in Token |-> IF life[t] = "running" THEN "gone" ELSE life[t]]
  /\ estranged' = estranged \cup {updates[i].token : i \in DOMAIN updates}
                            \cup ({posting.token} \ {NoToken})
  /\ updates' = <<>> /\ posting' = NoUpdate
  /\ direct' = [p \in Poster |-> NoToken]
  /\ UNCHANGED rows

RowsNext ==
  \/ \E t \in Token :
        \/ ConfirmSession(t) \/ ResumeSession(t) \/ DropSession(t) \/ BeatSession(t)
        \/ \E status \in Closing : RevokeSession(t, status)
  \/ TakeUpdate \/ UpdatePosted \/ UpdateFailed
  \/ \E p \in Poster : DirectEnds(p)
  \/ RowsRestart

UpdateTaskRuns == TakeUpdate \/ UpdatePosted \/ UpdateFailed

RowsSpec ==
  RowsInit /\ [][RowsNext]_rowVars /\ WF_<<updates, posting>>(UpdateTaskRuns)

-----------------------------------------------------------------------------
(* The row of a session that was revoked is closed in the end and stays    *)
(* closed, although the session may have been queued as active just before *)
(* and posted by two other tasks: unless an update of it was dropped or    *)
(* failed, or a direct post was under way when it ended.                   *)
RevokedRowStaysClosed ==
  \A t \in Token :
     <>[](life[t] = "revoked" => t \in estranged \/ rows[t] \in Closing)

=============================================================================
