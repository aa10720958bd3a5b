---------------------------- MODULE McpDispatch ----------------------------
(***************************************************************************)
(* What an MCP endpoint does with the body of an authorized request        *)
(* (handle_mcp_request, BaseMCPHandler, check_argument_policy, the tools): *)
(* its answer, and what it leaves among the notes.  Nothing is awaited     *)
(* between the parsing of the body and the answer, so a body is one step.  *)
(*                                                                         *)
(* Scopes play no part: no endpoint passes token_scope, which skips the    *)
(* scope checks whatever the policy flag says.                             *)
(***************************************************************************)
CONSTANT Keys   \* of notes, hashable and without a blocked pattern

\* The content a caller passes, as far as anything tells it apart: short text
\* (or a list or an object, which no rule looks into), long text, text with a
\* blocked pattern, a number or null, nothing.
Contents == {"fine", "long", "blocked", "unsized", "absent"}

NoKey == "noKey"            \* absent or empty
BlockedKey == "blockedKey"  \* contains a blocked pattern
Unhashable == "unhashable"  \* a list or an object, not an empty one
AnyKey == Keys \cup {NoKey, BlockedKey, Unhashable}

\* Bodies that end before a tool is called: not JSON, not an object, not a
\* JSON-RPC request, parameters of a wrong type, an unknown method or tool.
Broken == {"notJson", "notObject", "notRequest", "badParams", "unknown"}

\* initialize, ping, tools/list, and the tools that keep nothing: echo, ping,
\* whoami and dangerous_delete, which is a stub behind a policy.
Stateless == {"stateless"}

Bodies ==
  [form : Broken \cup Stateless]
    \cup [form : {"write_note"}, key : AnyKey, content : Contents]
    \cup [form : {"read_note"}, key : AnyKey]

Storable == Keys \cup {BlockedKey}
NoNote == "noNote"

\* Slip: no rule but that the content is there.
AbsentOnly(b) == b.form = "write_note" /\ b.content = "absent"

\* check_argument_policy: length and patterns are looked for in strings only.
Denied(b) ==
  /\ b.form = "write_note"
  /\ \/ b.content \in {"absent", "long", "blocked"}
     \/ b.key = BlockedKey

\* write_note_tool stores the note before it asks for its length.
Stores(b) ==
  /\ b.form = "write_note"
  /\ ~Denied(b)
  /\ b.key \notin {NoKey, Unhashable}

NotesAfter(b, notes) ==
  IF Stores(b) THEN [notes EXCEPT ![b.key] = b.content] ELSE notes

\* An exception nothing catches: the error path of handle_mcp_request asks a
\* body that is no object for its id, a dict is asked for an unhashable key,
\* len for the length of a number or of None.
Crashes(b) ==
  \/ b.form = "notObject"
  \/ b.form = "read_note" /\ b.key = Unhashable
  \/ /\ b.form = "write_note" /\ ~Denied(b)
     /\ \/ b.key = Unhashable
        \/ b.key # NoKey /\ b.content = "unsized"

\* The note is stored and the request succeeds (a request without an id, with
\* an empty answer).
Reports(b) == Stores(b) /\ ~Crashes(b)
=============================================================================
