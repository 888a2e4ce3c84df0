------------------------------- MODULE UserDb -------------------------------
(***************************************************************************)
(* auth.c: the user database.  A file of lines becomes a linked list of    *)
(* records, line by line, and the lookups search that list from its head.  *)
(* The list is only changed by auth_init() and auth_destroy(), so a lookup *)
(* is a function of it.                                                    *)
(***************************************************************************)
EXTENDS Integers, Sequences

CONSTANTS
    Account,     \* user names in the file
    Password     \* passwords

\* auth_hash_password(): SHA-256, taken to be one-to-one.
Hash(p) == <<"sha256", p>>

\* The third field of a line, and what counts as an administrator there.
Flag == {"1", "yes", "0"}
AdminFlag == {"1", "admin", "true", "yes"}

\* A line with three fields, or one that is skipped: a comment, an empty line,
\* or one on which sscanf() does not find all three.
UserLine == [user : Account, hash : {Hash(p) : p \in Password}, flag : Flag]
Skipped == [user |-> "#", hash |-> "", flag |-> ""]

\* A comment does not begin with a user's name.
ASSUME UserDbAssumption == "#" \notin Account

UserRecord == [user : Account, hash : {Hash(p) : p \in Password}, admin : BOOLEAN]
Record(l) == [user |-> l.user, hash |-> l.hash, admin |-> l.flag \in AdminFlag]

\* Mutants of a turn of the loop: a new record goes to the end of the list;
\* comments and malformed lines are not skipped.
Read_AtEnd(db, l) == IF l = Skipped THEN db ELSE Append(db, Record(l))
Read_Everything(db, l) == <<Record(l)>> \o db

\* One turn of the loop of auth_init(): the line's record becomes the new head.
Read(db, l) == IF l = Skipped THEN db ELSE <<Record(l)>> \o db

\* The first record of the user, as a set.
Found(db, u) ==
    {db[i] : i \in {j \in 1..Len(db) :
        db[j].user = u /\ \A k \in 1..(j - 1) : db[k].user # u}}

auth_verify(db, u, p) == \E r \in Found(db, u) : r.hash = Hash(p)
auth_is_admin(db, u) == \E r \in Found(db, u) : r.admin

-----------------------------------------------------------------------------
\* The line of the file that counts for a user: the last one with its name.
LastLine(file, u) ==
    {i \in 1..Len(file) :
        /\ file[i].user = u
        /\ \A j \in (i + 1)..Len(file) : file[j].user # u}
=============================================================================
