----------------------------- MODULE WireFormat -----------------------------
(***************************************************************************)
(* The text protocol (protocol.c): the builders at one end, the parsers at *)
(* the other, and what the client makes of a typed line before it sends    *)
(* one.  A text is a sequence of characters, of which only the space       *)
(* matters; a keyword is one token.  What is checked is that the two ends  *)
(* agree on every text around the limits of the fields and of the line.    *)
(***************************************************************************)
EXTENDS Integers, Sequences

CONSTANTS
    Char,       \* the characters of a text
    NameCap,    \* MAX_USERNAME_LEN - 1
    PassCap,    \* MAX_PASSWORD_LEN - 1
    RoomCap,    \* MAX_ROOM_NAME_LEN - 1
    TimeCap,    \* the size of the timestamp buffers - 1
    MsgCap,     \* MAX_MSG_LEN - 1
    LineCap,    \* MAX_LINE_LEN - 1
    Inputs,     \* what the user may type: [type, text]
    Responses   \* what the server may say: [type, fields]

Space == " "
NoSpace(t) == \A i \in 1..Len(t) : t[i] # Space

\* What the server has in its buffers when it builds a line: the names of
\* sessions and the timestamps are single words, a room is what a JOIN_ROOM may
\* name, and only a history, of which there is any number of entries, may be too
\* long for a line.
ServerSays(r) ==
    LET fs == r.fields
        Sized(t, n) == Len(t) \in 1..n
        Short(t, n) == Sized(t, n) /\ NoSpace(t)
    IN  /\ r \in [type : STRING, fields : Seq(Seq(Char))]
        /\ \/ /\ r.type = "BROADCAST" /\ Len(fs) = 4
              /\ Short(fs[1], NameCap) /\ Short(fs[2], TimeCap)
              /\ Sized(fs[3], RoomCap) /\ Sized(fs[4], MsgCap)
           \/ /\ r.type = "PM" /\ Len(fs) = 3
              /\ Short(fs[1], NameCap) /\ Short(fs[2], TimeCap) /\ Sized(fs[3], MsgCap)
           \/ /\ r.type \in {"USER_JOIN", "USER_LEFT"} /\ Len(fs) = 2
              /\ Short(fs[1], NameCap) /\ Sized(fs[2], RoomCap)
           \/ r.type = "WELCOME" /\ Len(fs) = 1 /\ Short(fs[1], NameCap)
           \/ r.type = "ROOM_JOINED" /\ Len(fs) = 1 /\ Sized(fs[1], RoomCap)
           \/ r.type \in {"OK", "ERR", "KICKED", "LIST"} /\ Len(fs) = 1 /\ Len(fs[1]) <= MsgCap
           \/ r.type = "HISTORY" /\ Len(fs) = 1 /\ Len(fs[1]) <= LineCap

\* A line has room for the longest of each field, and a message for a password.
ASSUME WireAssumption ==
    /\ {NameCap, PassCap, RoomCap, TimeCap, MsgCap, LineCap} \subseteq Nat
    /\ NameCap + TimeCap + RoomCap + MsgCap + 3 <= LineCap - 3
    /\ PassCap <= MsgCap
    /\ Space \in Char
    /\ \A in \in Inputs :
          /\ in.type \in {"JOIN_ROOM", "KICK", "MSG", "PM", "LIST", "HISTORY", "QUIT"}
          /\ in.text \in Seq(Char)
    /\ \A r \in Responses : ServerSays(r)

VARIABLES
    phase,      \* "idle", "built", "parsed"
    side,       \* who built the line: "client" or "server"
    item,       \* what it was built from
    line,       \* the line: its keyword and the rest
    got         \* what the parser at the other end returned

vars == <<phase, side, item, line, got>>

Refused == [type |-> "UNKNOWN", fields |-> <<>>]

Cut(t, n) == IF Len(t) > n THEN SubSeq(t, 1, n) ELSE t

\* strchr(): the first space, or the place behind the end.
strchr(t) ==
    CHOOSE i \in 1..(Len(t) + 1) :
       /\ i = Len(t) + 1 \/ t[i] = Space
       /\ \A j \in 1..(i - 1) : t[j] # Space

Word(t) == SubSeq(t, 1, strchr(t) - 1)
Rest(t) == SubSeq(t, strchr(t) + 1, Len(t))

\* t cut at its first n - 1 spaces.  Where one is missing, what follows is empty.
Fields(t, n) ==
    CASE n = 1 -> <<t>>
      [] n = 2 -> <<Word(t), Rest(t)>>
      [] n = 3 -> <<Word(t), Word(Rest(t)), Rest(Rest(t))>>
      [] n = 4 -> <<Word(t), Word(Rest(t)), Word(Rest(Rest(t))), Rest(Rest(Rest(t)))>>

-----------------------------------------------------------------------------
(* The builders.                                                           *)

Join(t, u) == t \o <<Space>> \o u

Words(fs) ==
    CASE fs = <<>> -> <<>>
      [] Len(fs) = 1 -> fs[1]
      [] Len(fs) = 2 -> Join(fs[1], fs[2])
      [] Len(fs) = 3 -> Join(fs[1], Join(fs[2], fs[3]))
      [] Len(fs) = 4 -> Join(fs[1], Join(fs[2], Join(fs[3], fs[4])))

\* The keyword, a space, the fields and the newline are at most LineCap long.
Fits(i) == Len(Words(i.fields)) <= LineCap - 3

\* snprintf() keeps what fits.
Build(i) == [key |-> i.type, rest |-> Cut(Words(i.fields), LineCap - 2)]

-----------------------------------------------------------------------------
(* The parsers.                                                            *)

\* Mutant: a length equal to the size of the buffer is let through.
Strict_Longer(t, caps) ==
    \A k \in 1..Len(caps) : Len(Fields(t, Len(caps))[k]) \in 1..(caps[k] + 1)

\* As many fields as caps, none missing or empty and none too long.  The last is
\* all that remains: parse_two_tokens(), parse_three_fields_msg(),
\* parse_four_fields_rest_msg(), and the tests for a single argument.
Strict(t, caps) ==
    \A k \in 1..Len(caps) : Len(Fields(t, Len(caps))[k]) \in 1..caps[k]

Parsed(l, caps) ==
    LET fs == Fields(l.rest, Len(caps))
    IN  IF Strict(l.rest, caps)
        THEN [type |-> l.key, fields |-> [k \in 1..Len(caps) |-> Cut(fs[k], caps[k])]]
        ELSE Refused

ClientCaps(key) ==
    CASE key = "AUTH" -> <<NameCap, MsgCap>>
      [] key = "PM" -> <<NameCap, MsgCap>>
      [] key = "JOIN_ROOM" -> <<RoomCap>>
      [] key = "KICK" -> <<NameCap>>
      [] key = "MSG" -> <<MsgCap>>

protocol_parse_client_line(l) ==
    IF l.key \in {"LIST", "HISTORY", "QUIT"}
    THEN [type |-> l.key, fields |-> <<>>]
    ELSE Parsed(l, ClientCaps(l.key))

\* Mutant: the room before the time.
ServerCaps_Swapped(key) ==
    CASE key = "BROADCAST" -> <<NameCap, RoomCap, TimeCap, MsgCap>>
      [] key = "PM" -> <<NameCap, TimeCap, MsgCap>>

ServerCaps(key) ==
    CASE key = "BROADCAST" -> <<NameCap, TimeCap, RoomCap, MsgCap>>
      [] key = "PM" -> <<NameCap, TimeCap, MsgCap>>

\* A single field is taken as it comes.
OneCap(key) ==
    CASE key = "WELCOME" -> NameCap
      [] key = "ROOM_JOINED" -> RoomCap
      [] key = "HISTORY" -> LineCap
      [] OTHER -> MsgCap

\* USER_JOIN and USER_LEFT: the room may be missing.
parse_two_fields(l) ==
    IF NoSpace(l.rest)
    THEN IF Len(l.rest) \in 1..NameCap
         THEN [type |-> l.key, fields |-> <<l.rest, <<>>>>]
         ELSE Refused
    ELSE Parsed(l, <<NameCap, RoomCap>>)

protocol_parse_server_line(l) ==
    IF l.key \in {"BROADCAST", "PM"} THEN Parsed(l, ServerCaps(l.key))
    ELSE IF l.key \in {"USER_JOIN", "USER_LEFT"} THEN parse_two_fields(l)
    ELSE [type |-> l.key, fields |-> <<Cut(l.rest, OneCap(l.key))>>]

-----------------------------------------------------------------------------
\* @user message: refused by the client when it is not of that form.
parse_at_pm(t) == Parsed([key |-> "PM", rest |-> t], <<NameCap, MsgCap>>)

\* The command a typed line stands for.
Meant(in) ==
    IF in.type = "PM" THEN parse_at_pm(in.text)
    ELSE [type |-> in.type,
          fields |-> IF in.type \in {"LIST", "HISTORY", "QUIT"} THEN <<>> ELSE <<in.text>>]

\* The dispatch of client_run(): an empty line, a bad @ line and a message that
\* does not fit are not sent.  The other builders' results are ignored.
Sends(in) ==
    /\ Meant(in) # Refused
    /\ in.type = "MSG" => in.text # <<>> /\ Fits(Meant(in))

ClientBuilds(in) ==
    /\ phase = "idle"
    /\ Sends(in)
    /\ item' = Meant(in) /\ line' = Build(Meant(in))
    /\ phase' = "built" /\ side' = "client" /\ got' = got

\* AUTH is built from the name and the password that resolve_credentials() let
\* through.
AuthBuilds(name, password) ==
    LET auth == [type |-> "AUTH", fields |-> <<name, password>>]
    IN  /\ phase = "idle"
        /\ Len(name) \in 1..NameCap /\ Len(password) \in 1..PassCap
        /\ item' = auth /\ line' = Build(auth)
        /\ phase' = "built" /\ side' = "client" /\ got' = got

\* A line that does not fit is not sent where the server looks at the builder's
\* result; the others always fit.
ServerBuilds(r) ==
    /\ phase = "idle"
    /\ r.type \in {"BROADCAST", "USER_JOIN", "USER_LEFT", "HISTORY"} => Fits(r)
    /\ item' = r /\ line' = Build(r)
    /\ phase' = "built" /\ side' = "server" /\ got' = got

ServerParses ==
    /\ phase = "built" /\ side = "client"
    /\ got' = protocol_parse_client_line(line)
    /\ phase' = "parsed" /\ UNCHANGED <<side, item, line>>

ClientParses ==
    /\ phase = "built" /\ side = "server"
    /\ got' = protocol_parse_server_line(line)
    /\ phase' = "parsed" /\ UNCHANGED <<side, item, line>>

Init ==
    /\ phase = "idle" /\ side = "client"
    /\ item = Refused /\ line = [key |-> "UNKNOWN", rest |-> <<>>] /\ got = Refused

Names == {in.text : in \in {x \in Inputs : x.type = "KICK"}}

Next ==
    \/ \E in \in Inputs : ClientBuilds(in)
    \/ \E n, p \in Names : AuthBuilds(n, p)
    \/ \E r \in Responses : ServerBuilds(r)
    \/ ServerParses
    \/ ClientParses

Spec == Init /\ [][Next]_vars

-----------------------------------------------------------------------------
(* Correctness.                                                            *)

\* What the protocol lets a client say: arguments that are there and within
\* their limits, and a name in front of another argument is one word.
Acceptable(i) ==
    LET caps == IF i.fields = <<>> THEN <<>> ELSE ClientCaps(i.type)
    IN  /\ \A k \in 1..Len(caps) : Len(i.fields[k]) \in 1..caps[k]
        /\ Len(caps) = 2 => NoSpace(i.fields[1])

\* The server understands a command exactly as the client meant it, or refuses
\* it: a line that was cut to the size of the buffer, or an argument that is too
\* long, never becomes a shorter command.  (A login name with a space in it is
\* read as another name.)  What it accepts is within the limits, whatever was
\* meant.
CommandsKept ==
    (phase = "parsed" /\ side = "client") =>
        /\ Acceptable(item) => got = item
        /\ got \notin {item, Refused} => item.type = "AUTH" /\ ~NoSpace(item.fields[1])
        /\ got # Refused => Acceptable(got)

\* The room of a message has a space in its name, and the client sees the message
\* begin there: the name and the time are right and no character is lost, or it
\* takes nothing at all because the text has become too long.
RoomSplit ==
    /\ item.type = "BROADCAST" /\ ~NoSpace(item.fields[3])
    /\ \/ got = Refused
       \/ /\ got.type = "BROADCAST"
          /\ got.fields[1] = item.fields[1] /\ got.fields[2] = item.fields[2]
          /\ Join(got.fields[3], got.fields[4]) = Join(item.fields[3], item.fields[4])

\* The client understands what the server says, names, times and texts each in
\* its place and whatever their lengths; only a room whose name has a space in it
\* and its message are told apart wrongly, and then nothing else is.
ResponsesKept == (phase = "parsed" /\ side = "server") => got = item \/ RoomSplit

=============================================================================
