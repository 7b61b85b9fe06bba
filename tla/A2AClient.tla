------------------------------ MODULE A2AClient ------------------------------
(***************************************************************************)
(* One invoke_remote_agent call: the federation registry's dispatch        *)
(* (internal/federation), the A2A adapter and Client.Send                  *)
(* (internal/a2a/client.go) against a remote agent and an unreliable       *)
(* connection.  A step is one HTTP exchange, one poll wait or one local    *)
(* decision between them; the caller's context ends at any time, by the    *)
(* timeout or by cancellation.                                             *)
(***************************************************************************)

CONSTANTS
  HasCard,    \* the agent is configured with agent_card_url
  HasSkill    \* the reference names a skill

VARIABLES
  pc,       \* where Send is
  ctx,      \* the bounded context: "live", "expired" or "canceled"
  remote,   \* external: the remote task, "none" before message/send reaches it
  known,    \* the task state Send holds, "none" before a task reply
  cancels,  \* tasks/cancel was attempted
  outcome   \* what the tool call returned

clientVars == <<pc, ctx, remote, known, cancels, outcome>>

Terminal == {"completed", "failed"}    \* failed stands for canceled and rejected too
Blocked == {"input-required"}          \* auth-required too
States == Terminal \cup Blocked \cup {"working"}
Errors == {"dispatch", "unreachable", "auth", "protocol", "timeout", "caller canceled",
           "remote failed", "malformed"}

TypeOK ==
  /\ pc \in {"dispatch", "skill", "endpoint", "send", "poll", "wait", "get", "done"}
  /\ ctx \in {"live", "expired", "canceled"}
  /\ remote \in States \cup {"none"} /\ known \in States \cup {"none"}
  /\ cancels \in BOOLEAN /\ outcome \in Errors \cup {"none", "result"}

Init ==
  /\ pc = "dispatch" /\ ctx = "live" /\ remote = "none" /\ known = "none"
  /\ cancels = FALSE /\ outcome = "none"

Return(what) == pc' = "done" /\ outcome' = what
Goto(step) == pc' = step /\ UNCHANGED outcome

\* What an HTTP exchange fails with: the context's end, the transport, a refused
\* credential, a status, or a body that does not parse.
CallErrors ==
  CASE ctx = "expired" -> {"timeout"}
    [] ctx = "canceled" -> {"caller canceled"}
    [] OTHER -> {"unreachable", "auth", "malformed"}

----------------------------------------------------------------------------
\* Registry.Invoke and Adapter.Invoke: the reference parses, names a registered
\* scheme and a configured agent, or the dispatch itself fails.
Invoke ==
  /\ pc = "dispatch"
  /\ Goto(IF HasSkill THEN "skill" ELSE "endpoint") \/ Return("dispatch")
  /\ UNCHANGED <<ctx, remote, known, cancels>>

\* checkSkill: the allowlist, then the card if there is one.
checkSkill ==
  /\ pc = "skill"
  /\ \/ ctx = "live" /\ Goto("endpoint")
     \/ ~HasCard /\ Goto("endpoint")
     \/ Return("dispatch")
     \/ HasCard /\ \E e \in CallErrors : Return(e)
  /\ UNCHANGED <<ctx, remote, known, cancels>>

\* endpointURL: the configured endpoint, or the card's JSON-RPC interface.
endpointURL ==
  /\ pc = "endpoint"
  /\ \/ Goto("send")
     \/ HasCard /\ \E e \in CallErrors \cup {"protocol"} : Return(e)
  /\ UNCHANGED <<ctx, remote, known, cancels>>

\* message/send.  The request may reach the agent and its answer be lost; a direct
\* message is a result at once, a task reply is polled.
SendMessage ==
  /\ pc = "send" /\ UNCHANGED <<ctx, cancels>>
  /\ \/ /\ ctx = "live"
        /\ \/ Return("result") /\ UNCHANGED <<remote, known>>
           \/ \E s \in States : remote' = s /\ known' = s /\ Goto("poll")
     \/ /\ \E e \in CallErrors : Return(e)
        /\ \E s \in States \cup {"none"} : remote' = s
        /\ UNCHANGED known

\* cancelTask: best effort, on a context of its own.
cancelTaskNever == UNCHANGED <<cancels, remote>>
cancelTask ==
  /\ cancels' = TRUE
  /\ remote' \in {remote} \cup (IF remote \in Terminal THEN {} ELSE {"failed"})

\* The head of the loop: a terminal task is returned, one that waits for input is
\* cancelled, and the context is looked at before the next wait.
pollHead ==
  /\ pc = "poll" /\ UNCHANGED <<ctx, known>>
  /\ IF known \in Terminal
     THEN /\ Return(IF known = "completed" THEN "result" ELSE "remote failed")
          /\ UNCHANGED <<cancels, remote>>
     ELSE IF known \in Blocked THEN cancelTask /\ Return("remote failed")
     ELSE Goto("wait") /\ UNCHANGED <<cancels, remote>>

\* The select: the context's end wins or the interval passes.
wait ==
  /\ pc = "wait" /\ UNCHANGED <<ctx, known>>
  /\ \/ /\ ctx # "live" /\ cancelTask
        /\ Return(IF ctx = "expired" THEN "timeout" ELSE "caller canceled")
     \/ Goto("get") /\ UNCHANGED <<cancels, remote>>

\* tasks/get: an error that races the context's end still cancels.
getTask ==
  /\ pc = "get" /\ UNCHANGED ctx
  /\ \/ ctx = "live" /\ known' = remote /\ Goto("poll") /\ UNCHANGED <<cancels, remote>>
     \/ /\ \E e \in CallErrors : Return(e)
        /\ IF ctx # "live" THEN cancelTask ELSE UNCHANGED <<cancels, remote>>
        /\ UNCHANGED known

----------------------------------------------------------------------------
RemoteStep ==
  /\ remote \notin Terminal \cup {"none"} /\ remote' \in States
  /\ UNCHANGED <<pc, ctx, known, cancels, outcome>>
ContextEnds ==
  /\ ctx = "live" /\ pc # "done" /\ ctx' \in {"expired", "canceled"}
  /\ UNCHANGED <<pc, remote, known, cancels, outcome>>

Sending == Invoke \/ checkSkill \/ endpointURL \/ SendMessage \/ pollHead \/ wait \/ getTask
Next == Sending \/ RemoteStep \/ ContextEnds
Spec == Init /\ [][Next]_clientVars

----------------------------------------------------------------------------
\* A task the client knows to be open is not abandoned when the client stops for its
\* own reasons: once its context has ended, or the agent asked for input it cannot
\* give, tasks/cancel has been attempted before the tool call returns (Send).  An
\* answer lost on a live context is not among them: that error leaves the task be.
OpenTaskIsCancelled ==
  /\ outcome \in {"timeout", "caller canceled"} /\ known \notin Terminal \cup {"none"} => cancels
  /\ outcome = "remote failed" /\ known \notin Terminal => cancels
==============================================================================
