------------------------------- MODULE IrcInput ------------------------------
(***************************************************************************)
(* From the bytes of the IRC connections to parsed lines: irc_in and       *)
(* parse_irc_line (irc.c), with tcrealloc0 and tsrealloc0 (util.c).        *)
(*                                                                         *)
(* irc_in has one static buffer, and one static size for it, for all       *)
(* networks.  A call reads at most BUFFER_SIZE - 1 bytes, hands on every   *)
(* complete line, and leaves the begun one in the buffer.  A line is text  *)
(* over Char; the server ends it with "\r\n" or "\n".                      *)
(*                                                                         *)
(* The C strings are sequences here.  What is kept of memory is whether a  *)
(* string that was written without its '\0' has one: zeros says how far    *)
(* the bytes behind the string are known to be 0.                          *)
(***************************************************************************)
EXTENDS Integers, SequencesExt

CONSTANTS Network,
          Char,       \* the characters of a line, ":", "!", "@" and " " among them
          Ping,       \* the command PING
          Userhost,   \* the numeric 302
          Nick,       \* net->nick
          BufferSize, \* BUFFER_SIZE
          Slots,      \* how many words a new word array has room for, 10 in the code
          World       \* what servers may send: the lines of each network, and their end

CR == "\r"
LF == "\n"
Junk == "junk"  \* what a byte that was never written may be
NUL == "NUL"

ASSUME IrcInputAssumption ==
    /\ Network # {}
    /\ {":", "!", "@", " "} \subseteq Char /\ Char \cap {CR, LF, Junk, NUL} = {}
    /\ BufferSize \in Nat /\ BufferSize > 1 /\ Slots \in Nat /\ Slots > 1
    /\ World \subseteq [lines : [Network -> Seq(Seq(Char))], end : {<<CR, LF>>, <<LF>>}]

VARIABLES world,  \* what is sent
          wire,   \* the bytes of each network that were not yet read
          block,  \* the bytes allocated for buffer, 0 when it is NULL
          text, zeros, \* the string in it, and where the zeros behind it end
          size,   \* the static variable
          place,     \* the place in irc_in, or "fault": the process is gone
          net,    \* the network that is read
          line, m, data, room, \* parse_irc_line: the line, the position, what
                  \* was found, and the slots of the array that is filled
          shost,  \* net->shost of each network, {} when it is NULL
          handled, \* history: the lines each network's triggers were run for,
                   \* until one of them is broken
          owner,  \* history: the networks whose bytes are in the buffer
          fresh,  \* history: it began in a new buffer, for which size may be wrong
          broken  \* history: networks one of whose lines was damaged or lost

buffer == <<block, text, zeros, size>>
parser == <<line, m, data, room>>
history == <<handled, owner, fresh, broken>>
ircVars == <<world, wire, buffer, place, net, parser, shost, history>>
-----------------------------------------------------------------------------
Byte == Char \cup {CR, LF, Junk}

\* What a prefix has is the domain of prefix.
NoData == [prefix |-> << >>, command |-> << >>, params |-> << >>, rest |-> << >>, reststr |-> << >>]

IrcPrefixes ==
    [{} -> Seq(Byte)] \cup [{"servername"} -> Seq(Byte)] \cup [{"nick"} -> Seq(Byte)]
    \cup [{"nick", "user", "host"} -> Seq(Byte)]
IrcData == [prefix : IrcPrefixes, command : Seq(Byte), params : Seq(Seq(Byte)),
            rest : Seq(Seq(Byte)), reststr : Seq(Byte)]

\* The input buffer holds a string that ends within its block, tcrealloc0 keeps
\* the size it will be told about next, and the words of a line fit their array
\* with the NULL behind them (irc_in, parse_irc_line).
InputOK ==
    /\ world \in World /\ wire \in [Network -> Seq(Byte)]
    /\ block \in Nat /\ size \in Nat \ {0}
    /\ text \in Seq(Byte) /\ zeros \in 0..block
    /\ block > 0 => Len(text) < zeros
    /\ place \in {"select", "lines", "prefix", "command", "params", "rest", "dispatch", "fault"}
    /\ net \in Network /\ owner \subseteq Network /\ broken \subseteq Network /\ fresh \in BOOLEAN
    /\ line \in Seq(Byte) /\ m \in Nat \ {0} /\ room \in Nat
    /\ data \in IrcData
    /\ place = "params" => Len(data.params) < room
    /\ place = "rest" => Len(data.rest) < room
    /\ handled \in [Network -> Seq(Seq(Byte))] /\ shost \in [Network -> SUBSET Seq(Byte)]

IrcInit ==
    /\ world \in World
    /\ wire = [n \in Network |-> FlattenSeq([i \in DOMAIN world.lines[n] |-> world.lines[n][i] \o world.end])]
    /\ block = 0 /\ text = << >> /\ zeros = 0
    /\ size = BufferSize
    /\ place = "select" /\ net = CHOOSE n \in Network : TRUE
    /\ line = << >> /\ m = 1 /\ data = NoData /\ room = Slots
    /\ handled = [n \in Network |-> << >>] /\ shost = [n \in Network |-> {}]
    /\ owner = {} /\ fresh = FALSE /\ broken = {}
-----------------------------------------------------------------------------
\* recv() returns the next k bytes of n.
Received(n, k) == SubSeq(wire[n], 1, k)

Reads(n, k) ==
    /\ place = "select" /\ net' = n
    /\ k \in 1..Len(wire[n]) /\ k < BufferSize
    /\ wire' = [wire EXCEPT ![n] = SubSeq(@, k + 1, Len(@))]
    /\ place' = "lines"
    /\ UNCHANGED <<world, parser, shost, handled>>

RecvNew(n, k) ==
    /\ Reads(n, k)
    /\ block = 0
    /\ block' = BufferSize + 1 /\ zeros' = BufferSize + 1
    /\ text' = Received(n, k)
    /\ owner' = {n} /\ fresh' = TRUE
    /\ UNCHANGED <<size, broken>>

\* tcrealloc0: the block is made alloc bytes long, and when size says that it
\* was shorter, the bytes from size - 1 on are set to 0, all but the last.
Grows(alloc) == size < alloc
Kept(alloc) ==
    IF Grows(alloc) /\ size - 1 < Len(text) THEN SubSeq(text, 1, size - 1) ELSE text
Zeroed(alloc) ==
    IF Grows(alloc) /\ size - 1 <= zeros THEN alloc - 1
    ELSE IF zeros < alloc THEN zeros ELSE alloc

\* The fragment that was left over, and behind it what is read now.
RecvMore(n, k) ==
    /\ Reads(n, k)
    /\ block # 0
    /\ LET alloc == Len(text) + BufferSize + 1
           kept == Kept(alloc)
           ended == Len(kept) + k < Zeroed(alloc)
       IN  \E tail \in IF ended THEN {<< >>} ELSE {<< >>, <<Junk>>} :
             /\ block' = alloc /\ size' = alloc
             /\ text' = kept \o Received(n, k) \o tail
             /\ zeros' = IF ended THEN Zeroed(alloc) ELSE Len(text') + 1
             /\ owner' = owner \cup {n}
             /\ broken' = IF owner' = {n} /\ kept = text /\ tail = << >> THEN broken
                          ELSE broken \cup owner'
    /\ UNCHANGED fresh

\* recv() returns -1, or 0 as n closes: the buffer is given up, whoever's it is.
RecvNothing(n) ==
    /\ place = "select" /\ net' = n
    /\ block' = 0 /\ text' = << >> /\ zeros' = 0
    /\ size' = IF block = 0 THEN size ELSE Len(text) + BufferSize + 1
    /\ broken' = broken \cup owner /\ owner' = {}
    /\ UNCHANGED <<world, wire, place, parser, shost, handled, fresh>>

IsEnd(c) == c \in {CR, LF}

\* The line ends before the first of the two characters; all of them that follow
\* are skipped.
LineEnd == CHOOSE i \in DOMAIN text : IsEnd(text[i]) /\ \A j \in 1..(i - 1) : ~IsEnd(text[j])

\* Mutant of Remainder: only the character that ends the line is skipped.
RemainderBehindOne == SubSeq(text, LineEnd + 1, Len(text))

Remainder ==
    LET after == CHOOSE i \in LineEnd..Len(text) :
                     /\ \A j \in LineEnd..i : IsEnd(text[j])
                     /\ i = Len(text) \/ ~IsEnd(text[i + 1])
    IN  SubSeq(text, after + 1, Len(text))

\* Mutant of Shifted: size keeps the length it had.
ShiftedOnly(rest) ==
    /\ block' = Len(rest) + 1 /\ zeros' = Len(rest) + 1
    /\ UNCHANGED size

\* The rest is copied to a block of its own.
Shifted(rest) ==
    /\ block' = Len(rest) + 1 /\ zeros' = Len(rest) + 1
    /\ size' = Len(rest) + 1

\* A complete line.  The buffer is shifted after parse_irc_line has returned,
\* which does not touch it.
TakeLine ==
    /\ place = "lines" /\ block # 0 /\ LF \in ToSet(text)
    /\ line' = SubSeq(text, 1, LineEnd - 1)
    /\ text' = Remainder
    /\ IF Remainder = << >>
       THEN block' = 0 /\ zeros' = 0 /\ owner' = {} /\ UNCHANGED size
       ELSE Shifted(Remainder) /\ owner' = {net}
    /\ UNCHANGED <<m, data, room>>
    /\ fresh' = FALSE
    /\ place' = "prefix"
    /\ UNCHANGED <<world, wire, net, shost, handled, broken>>

NoLine ==
    /\ place = "lines" /\ (block = 0 \/ LF \notin ToSet(text))
    /\ place' = "select"
    /\ UNCHANGED <<world, wire, buffer, net, parser, shost, history>>

-----------------------------------------------------------------------------
At(i) == IF i \in DOMAIN line THEN line[i] ELSE NUL

Found(c, from) == \E i \in from..Len(line) : line[i] = c
Next1(c, from) == CHOOSE i \in from..Len(line) : line[i] = c /\ \A j \in from..(i - 1) : line[j] # c

Parses == UNCHANGED <<world, wire, buffer, net, line, shost, history>>

\* A loop runs on past the end of the line.
Fault == place' = "fault" /\ Parses /\ UNCHANGED <<m, data, room>>

\* The text of a prefix is nick!user@host if it has a "!", and then it must have
\* an "@" behind that; else it is a server's name, or the bot's own nick.
Prefix(text1) ==
    IF "!" \in ToSet(text1)
    THEN LET bang == SelectInSeq(text1, LAMBDA c : c = "!")
             at == CHOOSE i \in bang..Len(text1) :
                       text1[i] = "@" /\ \A j \in bang..(i - 1) : text1[j] # "@"
         IN  [nick |-> SubSeq(text1, 1, bang - 1), user |-> SubSeq(text1, bang + 1, at - 1),
              host |-> SubSeq(text1, at + 1, Len(text1))]
    ELSE IF text1 = Nick THEN [nick |-> text1] ELSE [servername |-> text1]

\* The first "!" counts: what follows an "@" behind it may hold more of them.
Hopeless(text1) ==
    /\ "!" \in ToSet(text1)
    /\ "@" \notin ToSet(SubSeq(text1, SelectInSeq(text1, LAMBDA c : c = "!"), Len(text1)))

ParsePrefix ==
    /\ place = "prefix"
    /\ IF At(1) # ":" THEN place' = "command" /\ Parses /\ UNCHANGED <<m, data, room>>
       ELSE LET text1 == SubSeq(line, 2, Next1(" ", 1) - 1)
            IN  IF ~Found(" ", 1) \/ Hopeless(text1) THEN Fault
                ELSE /\ data' = [data EXCEPT !.prefix = Prefix(text1)]
                     /\ m' = Next1(" ", 1) + 1
                     /\ place' = "command"
                     /\ Parses /\ UNCHANGED room

ParseCommand ==
    /\ place = "command"
    /\ IF ~Found(" ", m) THEN Fault
       ELSE /\ data' = [data EXCEPT !.command = SubSeq(line, m, Next1(" ", m) - 1)]
            /\ m' = Next1(" ", m) + 1
            /\ place' = "params"
            /\ Parses /\ UNCHANGED room

\* Mutant of Colon: any colon does.
ColonAnywhere(i) == At(i) = ":"

\* A colon after a space ends the parameters.
Colon(i) == At(i) = ":" /\ At(i - 1) = " "
Colons == {i \in DOMAIN line : Colon(i)}

\* The words after a space take their first character whatever it is, the end
\* of the line included.
Start(s, words) == IF words = << >> THEN s ELSE s + 1

\* Where the word that is looked at from position s on ends.
WordEnd(s, stops) ==
    CHOOSE e \in s..(Len(line) + 2) :
        /\ At(e) \in {" ", NUL} \/ e \in stops
        /\ \A i \in s..(e - 1) : At(i) \notin {" ", NUL} /\ i \notin stops

\* The word behind words gets a slot, and so does the NULL behind it.
Enlarged(words) == IF Len(words) + 1 = room THEN room + 10 ELSE room

\* Behind a space, except at the end: one more word.
Goes(words) == words # << >> /\ At(m - 1) = " "

ParamsEnd ==
    /\ place = "params"
    /\ Colon(m) \/ (At(m) = NUL /\ ~Goes(data.params))
    /\ IF At(m) = NUL \/ At(m + 1) = NUL
       THEN place' = "dispatch" /\ UNCHANGED <<m, data, room>>
       ELSE /\ place' = "rest" /\ m' = m + 1 /\ room' = Slots
            /\ data' = [data EXCEPT !.reststr = SubSeq(line, m + 1, Len(line))]
    /\ Parses

\* A word from position m on.  m goes behind the space or the '\0' that ends it.
Word(words, stops) ==
    LET e == WordEnd(Start(m, words), stops)
    IN  /\ room' = IF At(e) = " " THEN Enlarged(Append(words, << >>)) ELSE room
        /\ m' = IF e \in stops THEN e ELSE e + 1
WordAt(words, stops) ==
    LET e == WordEnd(Start(m, words), stops) IN SubSeq(line, m, IF e > Len(line) THEN Len(line) ELSE e - 1)

Param ==
    /\ place = "params" /\ ~Colon(m)
    /\ At(m) # NUL \/ Goes(data.params)
    /\ Word(data.params, Colons)
    /\ data' = [data EXCEPT !.params = Append(@, WordAt(@, Colons))]
    /\ UNCHANGED place /\ Parses

\* In the trailing text a space at the end starts no word, nor does a colon end one.
RestWord ==
    /\ place = "rest" /\ At(m) # NUL
    /\ Word(data.rest, {})
    /\ data' = [data EXCEPT !.rest = Append(@, WordAt(@, {}))]
    /\ UNCHANGED place /\ Parses

RestEnd ==
    /\ place = "rest" /\ At(m) = NUL
    /\ place' = "dispatch" /\ Parses /\ UNCHANGED <<m, data, room>>

\* The answer to PING reads the first word of the text, if there is one or not.
PingFails == place = "dispatch" /\ data.command = Ping /\ data.rest = << >> /\ Fault

\* irc_data_free
Forgotten == line' = << >> /\ m' = 1 /\ data' = NoData /\ room' = Slots

\* The bot learns its own host from the first answer to USERHOST with an "@";
\* then trigger_match runs.
RunTriggers ==
    /\ place = "dispatch" /\ (data.command # Ping \/ data.rest # << >>)
    /\ shost' = IF data.command = Userhost /\ shost[net] = {} /\ "@" \in ToSet(data.reststr)
                THEN [shost EXCEPT ![net] = {SubSeq(data.reststr,
                         SelectInSeq(data.reststr, LAMBDA c : c = "@") + 1, Len(data.reststr))}]
                ELSE shost
    /\ handled' = IF net \in broken THEN handled ELSE [handled EXCEPT ![net] = Append(@, line)]
    /\ place' = "lines"
    /\ Forgotten
    /\ UNCHANGED <<world, wire, buffer, net, owner, fresh, broken>>

ReadLine ==
    \/ \E n \in Network : RecvNothing(n) \/ \E k \in 1..Len(wire[n]) : RecvNew(n, k) \/ RecvMore(n, k)
    \/ TakeLine \/ NoLine
ParseLine ==
    \/ ParsePrefix \/ ParseCommand \/ Param \/ ParamsEnd \/ RestWord \/ RestEnd
    \/ PingFails \/ RunTriggers

IrcNext == ReadLine \/ ParseLine

IrcSpec == IrcInit /\ [][IrcNext]_ircVars
-----------------------------------------------------------------------------
\* What n sent and what no trigger has seen yet.
Lines(ls) == FlattenSeq([i \in DOMAIN ls |-> ls[i] \o world.end])
Unseen(n) == Lines(SubSeq(world.lines[n], Len(handled[n]) + 1, Len(world.lines[n])))

\* However the bytes of a network are cut into reads, its lines reach the triggers
\* whole and in order, each once, and between two calls of irc_in only an
\* unfinished line waits in the buffer (the loop of irc_in with tcrealloc0).
\* Excepted are the networks whose bytes were mixed with another's, wiped by
\* tcrealloc0, or given up with the buffer, and those that send empty lines: such
\* a line is skipped with the end of the one before it.
LinesInOrder ==
    \A n \in Network \ broken : << >> \notin ToSet(world.lines[n]) =>
        /\ IsPrefix(handled[n], world.lines[n])
        /\ place \notin {"select", "lines"} /\ net = n =>
              IsPrefix(Append(handled[n], line), world.lines[n])
        /\ place = "select" =>
              /\ Unseen(n) = (IF owner = {n} THEN text ELSE << >>) \o wire[n]
              /\ owner = {n} => LF \notin ToSet(text)

\* A fragment that is not in the block that it was first read into survives
\* tcrealloc0, with what is read behind it (util.c tcrealloc0, called by irc_in).
FragmentsAreKept ==
    [][place = "select" /\ place' = "lines" /\ block # 0 /\ ~fresh =>
          text' = text \o Received(net', Len(wire[net']) - Len(wire'[net']))]_ircVars

-----------------------------------------------------------------------------
\* A line as the protocol has them: a command with at least one argument, words
\* with one space between them, and the last argument not empty.  PING comes with
\* a last argument.
TextAt(l) == CHOOSE i \in 1..(Len(l) + 1) :
    /\ i > Len(l) \/ (i > 1 /\ l[i] = ":" /\ l[i - 1] = " ")
    /\ \A j \in 2..(i - 1) : ~(l[j] = ":" /\ l[j - 1] = " ")
HasText(l) == TextAt(l) <= Len(l)
Head1(l) == IF HasText(l) THEN SubSeq(l, 1, TextAt(l) - 2) ELSE l
Spaces(s) == {i \in DOMAIN s : s[i] = " "}
Tidy(l) ==
    LET h == Head1(l)
        prefixed == h # << >> /\ h[1] = ":"
        words == Cardinality(Spaces(h)) + (IF prefixed THEN 0 ELSE 1)
    IN  /\ h # << >> /\ \A i \in Spaces(h) : 1 < i /\ i < Len(h) /\ h[i + 1] # " "
        /\ HasText(l) => TextAt(l) < Len(l)
        /\ words > 1 \/ (words = 1 /\ HasText(l))
        /\ prefixed => /\ h[2] # " "
                       /\ ~Hopeless(SubSeq(h, 2, (CHOOSE i \in Spaces(h) : \A j \in Spaces(h) : i <= j) - 1))

Spaced(words) == FlattenSeq([i \in DOMAIN words |-> <<" ">> \o words[i]])
PrefixText(p) ==
    IF p = << >> THEN << >>
    ELSE <<":">> \o (IF "servername" \in DOMAIN p THEN p.servername
                     ELSE IF DOMAIN p = {"nick"} THEN p.nick
                     ELSE p.nick \o <<"!">> \o p.user \o <<"@">> \o p.host) \o <<" ">>

\* What parse_irc_line finds in a tidy line is the line: the parts, put together
\* again, are it, no parameter is empty or two words, and the words of the text
\* with their spaces are the text but for a space at its end.
TidyLinesAreParsed ==
    /\ place = "dispatch" /\ Tidy(line) =>
          /\ line = PrefixText(data.prefix) \o data.command \o Spaced(data.params)
                    \o (IF HasText(line) THEN <<" ", ":">> \o data.reststr ELSE << >>)
          /\ \A i \in DOMAIN data.params : data.params[i] # << >> /\ " " \notin ToSet(data.params[i])
          /\ <<" ">> \o data.reststr \in {Spaced(data.rest), Spaced(data.rest) \o <<" ">>, <<" ">>}
    /\ place = "fault" /\ Tidy(line) => data.command = Ping /\ ~HasText(line)
=============================================================================
