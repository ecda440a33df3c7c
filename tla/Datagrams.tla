------------------------------ MODULE Datagrams -----------------------------
(***************************************************************************)
(* The helpers of src/mit_data_define.c as operators: the C strings they   *)
(* cut apart, and the octets of the datagrams.  A string is a sequence of  *)
(* characters; an octet counts Byte values (256 in the code), a short has  *)
(* two octets and an int four.                                             *)
(***************************************************************************)
EXTENDS Integers, SequencesExt

CONSTANTS
    Byte,  \* values of one octet
    Null   \* the null pointer

ASSUME DatagramConstants == Byte \in Nat /\ Byte >= 16 /\ Byte % 2 = 0

-----------------------------------------------------------------------------
(* Strings.                                                                *)

Blank == " "
LineEnd == "\n"
Equals == "="
Semicolon == ";"

Space == {Blank, LineEnd}

Printing(s) == {i \in DOMAIN s : s[i] \notin Space}

\* strip_string_space: a string of spaces only becomes a null pointer.
Strip(s) ==
    IF Printing(s) # {} THEN SubSeq(s, Min(Printing(s)), Max(Printing(s)))
    ELSE IF s = << >> THEN s ELSE Null

\* Mutant: strsep, which finds an empty word between two delimiters.
TokenStrsep(s, delimiter) ==
    LET end == Min({i \in DOMAIN s : s[i] = delimiter} \union {Len(s) + 1})
    IN  IF s = << >>
        THEN [word |-> Null, rest |-> << >>]
        ELSE [word |-> SubSeq(s, 1, end - 1), rest |-> SubSeq(s, end + 1, Len(s))]

\* strtok_r: delimiters at the head are skipped, and the token ends at the
\* next one, which is eaten.
Token(s, delimiter) ==
    LET others == {i \in DOMAIN s : s[i] # delimiter}
        first  == Min(others)
        ends   == {i \in first .. Len(s) : s[i] = delimiter}
        end    == Min(ends \union {Len(s) + 1})
    IN  IF others = {}
        THEN [word |-> Null, rest |-> << >>]
        ELSE [word |-> SubSeq(s, first, end - 1),
              rest |-> SubSeq(s, end + 1, Len(s))]

-----------------------------------------------------------------------------
(* Integers on the wire: big endian, and cut to their width.               *)

Shorts == Byte * Byte  \* values of a short

ShortOctets(v) == <<(v \div Byte) % Byte, v % Byte>>

IntOctets(v) == ShortOctets(v \div Shorts) \o ShortOctets(v)

\* ntohs and ntohl return unsigned values, which the fields store as signed.
Signed(values, u) == IF 2 * u < values THEN u ELSE u - values

Unsigned(head, at) == head[at + 1] * Byte + head[at + 2]

ShortIn(head, at) == Signed(Shorts, Unsigned(head, at))

IntIn(head, at) ==
    Signed(Shorts * Shorts, Unsigned(head, at) * Shorts + Unsigned(head, at + 2))

Commands == [register |-> 1, feed |-> 2, unregister |-> 3, self_unreg |-> 4]

\* wd_pg_register_new, from stripped strings: the length counts the
\* terminating zero.
RegisterPg(name, line, period, pid) ==
    LET text == name \o <<Semicolon>> \o line
    IN  [head |-> ShortOctets(Commands.register) \o ShortOctets(period)
                  \o IntOctets(pid) \o IntOctets(Len(text) + 1),
         text |-> text]

\* wd_pg_register_unpg: null when the name or the command is missing.
RegisterUnpg(pg) ==
    LET name == Token(pg.text, Semicolon)
        line == Token(name.rest, Semicolon)
    IN  IF name.word = Null \/ line.word = Null
        THEN Null
        ELSE [period |-> ShortIn(pg.head, 2),
              pid    |-> IntIn(pg.head, 4),
              name   |-> Strip(name.word),
              line   |-> Strip(line.word)]

\* Mutant: the id is written right behind the command.
ActionPgPacked(cmd, pid) ==
    ShortOctets(cmd) \o IntOctets(pid) \o ShortOctets(0)

\* wd_pg_action_new, wd_pg_return_new and the functions that read them.
ActionPg(cmd, pid) ==
    ShortOctets(cmd) \o ShortOctets(0) \o IntOctets(pid)

ActionUnpg(pg) ==
    [cmd |-> ShortIn(pg, 0), pid |-> IntIn(pg, 4)]

ReturnPg(cmd, error) == ShortOctets(cmd) \o ShortOctets(error)

ReturnUnpg(pg) ==
    [cmd |-> ShortIn(pg, 0), error |-> ShortIn(pg, 2)]

=============================================================================
