---------------------------- MODULE SystemPrompt ----------------------------
(***************************************************************************)
(* The system prompt of the language model and its versions.  A request    *)
(* reads the row, makes it if there is none, and puts the shipped text in  *)
(* the place of that of the first release.  A save adds a version to the   *)
(* history in the transaction that changes the row; it is stamped before   *)
(* the commit.  Versions are listed by their stamps, and restored from     *)
(* there by another save.                                                  *)
(***************************************************************************)
EXTENDS Naturals, Sequences, FiniteSets

CONSTANTS Handler, MaxSaves                 \* the requests under way at once; a bound on the saves

VARIABLES
    prompt,     \* the text of the row and the versions, as they were inserted; the time; whether requests overlapped
    handler     \* per request: what it saves, if it does, the text it has read, and its stamp

vars == <<prompt, handler>>

Texts == {"first", "shipped", "u1", "u2"}
Idle  == [pc |-> "idle", text |-> "none", read |-> "none", at |-> 0]

TypeOK ==
    /\ prompt.text \in Texts \cup {"none"} /\ prompt.overlapped \in BOOLEAN
    /\ \A i \in DOMAIN prompt.versions : prompt.versions[i].text \in Texts
    /\ handler \in [Handler -> [pc : {"idle", "upgrade", "refresh", "stamp", "commit"}, text : Texts \cup {"none"},
                                read : Texts \cup {"none"}, at : 0..MaxSaves]]

(* Newest first: by the stamp, and of one second by the row.               *)
Newer(i, j) == LET v == prompt.versions IN v[i].at > v[j].at \/ (v[i].at = v[j].at /\ i > j)
First       == CHOOSE i \in DOMAIN prompt.versions : \A j \in DOMAIN prompt.versions \ {i} : Newer(i, j)
Newest      == prompt.versions[First].text

Saving == {h \in Handler : handler[h].text # "none"}
Goes(h, pc)  == handler' = [handler EXCEPT ![h].pc = pc]
Leaves(h)    == handler' = [handler EXCEPT ![h] = Idle]

(* A read, or a save of what an admin has written or picked from the list. *)
Offered == {"u1", "u2", "shipped"} \cup {prompt.versions[i].text : i \in DOMAIN prompt.versions}
Begins(h) ==
    /\ handler[h].pc = "idle"
    /\ \E text \in (IF Len(prompt.versions) + Cardinality(Saving) < MaxSaves THEN Offered ELSE {}) \cup {"none"} :
          /\ text # "none" \/ prompt.text \in {"none", "first"}
          /\ handler' = [handler EXCEPT ![h] =
                 [pc |-> IF prompt.text \in {"none", "first"} THEN "upgrade" ELSE "stamp",
                  text |-> text, read |-> prompt.text, at |-> 0]]
    /\ prompt' = [prompt EXCEPT !.overlapped = @ \/ \E g \in Handler : handler[g].pc # "idle"]

(* The row is inserted, unless somebody has done so meanwhile: then the    *)
(* request fails.  The text of the first release is replaced, whatever is  *)
(* there by now.  A save that has done either reads the row again.         *)
Upgraded(h) == IF handler[h].read = "none" /\ prompt.text # "none" THEN prompt.text ELSE "shipped"
Upgrades(h) ==
    /\ handler[h].pc = "upgrade"
    /\ prompt' = [prompt EXCEPT !.text = Upgraded(h)]
    /\ IF handler[h].text = "none" \/ (handler[h].read = "none" /\ prompt.text # "none") THEN Leaves(h)
       ELSE Goes(h, "refresh")
Refreshes(h) ==
    /\ handler[h].pc = "refresh"
    /\ handler' = [handler EXCEPT ![h].pc = "stamp", ![h].read = prompt.text]
    /\ UNCHANGED prompt

Stamps(h) ==
    /\ handler[h].pc = "stamp"
    /\ handler' = [handler EXCEPT ![h].pc = "commit", ![h].at = prompt.now]
    /\ UNCHANGED prompt

(* The text is written if it differs from the one that was read; a version *)
(* is added in any case.                                                   *)
Versions(h) == Append(prompt.versions, [text |-> handler[h].text, at |-> handler[h].at])
Commits(h) ==
    LET r == handler[h]
    IN  /\ r.pc = "commit"
        /\ prompt' = [prompt EXCEPT !.text = IF r.text = r.read THEN @ ELSE r.text, !.versions = Versions(h)]
        /\ Leaves(h)

Passes == prompt.now < MaxSaves /\ prompt' = [prompt EXCEPT !.now = @ + 1] /\ UNCHANGED handler

Init ==
    /\ \E text \in {"none", "first"} : prompt = [text |-> text, versions |-> <<>>, now |-> 0, overlapped |-> FALSE]
    /\ handler = [h \in Handler |-> Idle]

Next == Passes \/ \E h \in Handler : Begins(h) \/ Upgrades(h) \/ Refreshes(h) \/ Stamps(h) \/ Commits(h)

-----------------------------------------------------------------------------
(* The text in force is one of the shipped ones or has a version that it   *)
(* can be restored from, also when saves overlap; and if none has, the     *)
(* first version of the list is the text in force.                         *)
TextInForceListed ==
    /\ prompt.text \in {"none", "first", "shipped"} \/ \E i \in DOMAIN prompt.versions : prompt.versions[i].text = prompt.text
    /\ ~prompt.overlapped /\ prompt.versions # <<>> => Newest = prompt.text
=============================================================================
