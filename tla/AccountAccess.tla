---------------------------- MODULE AccountAccess ----------------------------
(***************************************************************************)
(* Users, roles and what a request may do.  Every request reads the row of *)
(* its user anew, and what it may do is what the role grants now, what the *)
(* user was given, and what the row itself lists.  An administrator may    *)
(* save any user, the default administrator "dobedub" too: a save commits, *)
(* and then the page that answers it repairs that row, in a transaction of *)
(* its own.  Several saves overlap, each writing only the columns it       *)
(* changes of the row it has read, and a process may die between the two.  *)
(***************************************************************************)
EXTENDS Naturals, FiniteSets

CONSTANT Handler                            \* the saves under way at once

VARIABLES
    accounts,           \* the rows: [admin, user, granted], and whether the admin's was repaired
    saving              \* per handler: what it has read and is asked to write

vars == <<accounts, saving>>

Roles   == {"SUPER_ADMIN", "OPERATOR"}
Codes   == {"admin:*", "users:write", "users:*", "roles:write", "roles:*", "history:read"}
Row     == [role : Roles, active : BOOLEAN, codes : SUBSET Codes, extra : SUBSET Codes]
NoRow   == [role |-> "none", active |-> FALSE, codes |-> {}, extra |-> {}]
Free    == [at |-> "free"]

(* What the row of a user lets a request do, and who may save users, or    *)
(* the codes of roles: a code, its whole domain, or everything.            *)
Effective(u) == accounts.granted[u.role] \cup u.codes \cup u.extra
Allows(codes, domain) ==
    codes \cap {"admin:*", domain, IF domain = "users:write" THEN "users:*" ELSE "roles:*"} # {}
Current(u)   == u # NoRow /\ u.active
MayWrite(domain) == \E u \in {accounts.admin, accounts.user} : Current(u) /\ Allows(Effective(u), domain)

NewAdmin == [role |-> "SUPER_ADMIN", active |-> TRUE, codes |-> {"admin:*"}, extra |-> {}]

(* The default administrator is there, active and a super administrator.   *)
Ensured_ActiveOnly(u) == IF u = NoRow THEN NewAdmin ELSE [u EXCEPT !.active = TRUE]
Ensured(u) ==
    IF u = NoRow THEN NewAdmin
    ELSE [u EXCEPT !.active = TRUE, !.role = "SUPER_ADMIN"]

Repaired(a) == [a EXCEPT !.admin = Ensured(@), !.repaired = TRUE]

(* What a login or a page of users leaves behind.                          *)
Login == accounts' = Repaired(accounts) /\ UNCHANGED saving

(* A save of the default administrator begins: the request is let in,      *)
(* reads the row, and is refused at once when it would deactivate it.      *)
Begin(h) ==
    /\ saving[h] = Free /\ MayWrite("users:write") /\ accounts.admin # NoRow
    /\ \E r \in Roles : saving' = [saving EXCEPT ![h] =
           [at |-> "read", row |-> accounts.admin, role |-> r, active |-> TRUE]]
    /\ UNCHANGED accounts

(* Only the columns that differ from what was read are written.            *)
Written(h) ==
    LET s == saving[h]
        Column(read, asked, stored) == IF asked # read THEN asked ELSE stored
    IN  [accounts.admin EXCEPT !.role   = Column(s.row.role, s.role, @),
                               !.active = Column(s.row.active, s.active, @),
                               !.codes  = Column(s.row.codes, {}, @)]

Commit(h) ==
    /\ saving[h].at = "read"
    /\ accounts' = [accounts EXCEPT !.admin = Written(h)]
    /\ saving' = [saving EXCEPT ![h] = [at |-> "saved"]]

(* The answer lists all users, which repairs the row first; unless the     *)
(* process dies before.                                                    *)
Answer(h) ==
    /\ saving[h].at = "saved"
    /\ accounts' = Repaired(accounts)
    /\ saving' = [saving EXCEPT ![h] = Free]

Dies(h) ==
    /\ saving[h].at = "saved"
    /\ accounts' = [accounts EXCEPT !.repaired = FALSE]
    /\ saving' = [saving EXCEPT ![h] = Free]

(* Any other user is saved, or deactivated, and the page repairs the       *)
(* administrator's row just the same.                                      *)
SaveUser ==
    /\ MayWrite("users:write")
    /\ \E r \in Roles, on \in BOOLEAN :
           LET u == IF accounts.user = NoRow THEN NewAdmin ELSE accounts.user
           IN  accounts' = Repaired([accounts EXCEPT !.user =
                   [u EXCEPT !.role = r, !.active = on, !.codes = {"users:*"}]])
    /\ UNCHANGED saving

Deactivated(a) == [a EXCEPT !.user.active = FALSE]
Deactivate ==
    /\ MayWrite("users:write") /\ accounts.user # NoRow
    /\ accounts' = Repaired(Deactivated(accounts))
    /\ UNCHANGED saving

(* The codes of a role are replaced, in one transaction; a super           *)
(* administrator's always contain admin:*.                                 *)
Keeps(role, codes) == codes \subseteq Codes /\ (role = "SUPER_ADMIN" => "admin:*" \in codes)
Granted(role, codes) == [accounts EXCEPT !.granted[role] = codes]

SaveRole ==
    /\ MayWrite("roles:write")
    /\ \E role \in Roles, codes \in {{}, {"admin:*"}, {"unknown"}} :
           /\ Keeps(role, codes)
           /\ accounts' = Granted(role, codes)
    /\ UNCHANGED saving

(* The database before anyone has logged in: no administrator, or a row    *)
(* that somebody has changed; the migrations have granted the roles.       *)
Init ==
    /\ accounts \in [admin : {NoRow} \cup [role : Roles, active : BOOLEAN, codes : {{}}, extra : {{}}],
                     user : {NoRow, [role |-> "OPERATOR", active |-> TRUE, codes |-> {}, extra |-> {"users:write"}]},
                     granted : {[r \in Roles |-> IF r = "SUPER_ADMIN" THEN {"admin:*"} ELSE {"history:read"}]},
                     repaired : {FALSE}]
    /\ saving = [h \in Handler |-> Free]

Next ==
    \/ Login \/ SaveUser \/ Deactivate \/ SaveRole
    \/ \E h \in Handler : Begin(h) \/ Commit(h) \/ Answer(h) \/ Dies(h)

TypeOK ==
    /\ accounts \in [admin : {NoRow} \cup Row, user : {NoRow} \cup Row,
                     granted : [Roles -> SUBSET Codes], repaired : BOOLEAN]
    /\ saving \in [Handler -> {Free, [at |-> "saved"]} \cup
                              [at : {"read"}, row : Row, role : Roles, active : {TRUE}]]

-----------------------------------------------------------------------------
(* Nobody can lock the studio: once somebody has logged in, the default    *)
(* administrator is there, active and may do everything, whatever roles    *)
(* and rows have been saved, by however many at once, while none of them   *)
(* is between its commit and its answer or was cut off there, in which     *)
(* case the next login or page makes up for it.                            *)
AdminStands ==
    accounts.repaired /\ (\A h \in Handler : saving[h].at # "saved") =>
        Current(accounts.admin) /\ "admin:*" \in Effective(accounts.admin)
=============================================================================
