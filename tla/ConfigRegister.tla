---------------------------- MODULE ConfigRegister ----------------------------
(***************************************************************************)
(* What one gcx configuration document promises to the commands that       *)
(* update it, with the lock, the keychain, the temporary file and the      *)
(* directory sync left out: a register that commands edit one at a time.   *)
(* A value of the register is a meaning: the set of edits it contains and, *)
(* for every credential field, the secret a reader obtains.                *)
(*                                                                         *)
(* ConfigStore refines this module.                                        *)
(***************************************************************************)

CONSTANTS Edits,        \* identities of the edits commands make
          Creds,        \* credential fields of the document
          Unset,        \* the value of a field that holds no credential
          NoMeaning     \* the meaning of a document that does not exist

VARIABLES value,        \* what a reader of the document obtains now
          survivors,    \* what a reader may obtain after a power loss
          prior,        \* the value the edit in progress started from
          outcome       \* what the command making an edit reported

vars == <<value, survivors, prior, outcome>>

Meaning == [edits : SUBSET Edits, want : [Creds -> Edits \cup {Unset}]]

\* A document that does not exist holds no edits and no credentials.
EditsOf(m) == IF m = NoMeaning THEN {} ELSE m.edits
WantOf(m)  == IF m = NoMeaning THEN [c \in Creds |-> Unset] ELSE m.want

\* The meanings one edit can turn m into: at most one credential field is set
\* to the edit's secret or cleared, and nothing else is lost.
Edited(m, e) ==
  { w \in [edits : {EditsOf(m) \cup {e}}, want : [Creds -> Edits \cup {Unset}]] :
      \E touched \in {{}} \cup {{c} : c \in Creds} :
        /\ \A c \in touched : w.want[c] \in {e, Unset}
        /\ \A c \in Creds \ touched : w.want[c] = WantOf(m)[c] }

-------------------------------------------------------------------------------
Init ==
  /\ value \in Meaning \cup {NoMeaning}
  /\ survivors = {value}
  /\ prior = value
  /\ outcome \in [Edits -> {"unused", "ok"}]
  /\ \A e \in Edits : outcome[e] = "ok" <=> e \in EditsOf(value)

\* A command decides on an edit.
Begin(e) ==
  /\ outcome[e] = "unused"
  /\ outcome' = [outcome EXCEPT ![e] = "pending"]
  /\ UNCHANGED <<value, survivors, prior>>

\* The edit becomes visible to every reader at once. A power loss may still
\* bring the previous document back.
Apply(e) ==
  /\ outcome[e] = "pending"
  /\ e \notin EditsOf(value)
  /\ value' \in Edited(value, e)
  /\ survivors' = survivors \cup {value'}
  /\ prior' = value
  /\ UNCHANGED outcome

\* The visible document becomes the only one that can survive.
Settle ==
  /\ survivors' = {value}
  /\ UNCHANGED <<value, prior, outcome>>

\* A command that cannot finish its edit takes it back, exactly.
Undo(e) ==
  /\ outcome[e] = "pending"
  /\ e \in EditsOf(value)
  /\ value' = prior
  /\ survivors' = survivors \cup {value'}
  /\ UNCHANGED <<prior, outcome>>

\* The edit in progress can no longer be taken back.
Close ==
  /\ prior' = value
  /\ UNCHANGED <<value, survivors, outcome>>

\* A command reports. "ok" promises that nothing but a later edit can remove
\* the edit, "failed" that it has left no trace.
Report(e, verdict) ==
  /\ outcome[e] = "pending"
  /\ verdict = "ok" => \A m \in survivors : e \in EditsOf(m)
  /\ verdict = "failed" => \A m \in survivors : e \notin EditsOf(m)
  /\ outcome' = [outcome EXCEPT ![e] = verdict]
  /\ prior' \in {prior, value}
  /\ UNCHANGED <<value, survivors>>

PowerLoss ==
  /\ value' \in survivors
  /\ survivors' = {value'}
  /\ prior' = value'
  /\ UNCHANGED outcome

Next ==
  \/ \E e \in Edits : Begin(e) \/ Apply(e) \/ Undo(e)
  \/ \E e \in Edits, v \in {"ok", "failed", "undurable", "retained"} : Report(e, v)
  \/ Settle \/ Close \/ PowerLoss

Spec == Init /\ [][Next]_vars

===============================================================================
