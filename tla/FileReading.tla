---------------------------- MODULE FileReading ----------------------------
(***************************************************************************)
(* FileSource::process_file of src/parser/parsers.hpp: how a mapped file   *)
(* becomes messages.  NASDAQ: frames with a length prefix (parse_message   *)
(* and its handlers, src/parser/nasdaq.cpp).  CSV: lines                   *)
(* (src/line_view.hpp).                                                    *)
(* Databento: records of a decoder.  The file may be cut off anywhere.     *)
(* A single CSV line, the text of a number and an ITCH price are read on   *)
(* their own: a file of one.                                               *)
(***************************************************************************)
EXTENDS TextFields, FiniteSets

CONSTANTS
    MaxFrames,  \* bound: messages or records of a file
    MaxChars,   \* bound: characters of a CSV file
    Missing,    \* how many bytes a NASDAQ file may lack at its end
    MaxText     \* bound: characters of a number

ASSUME ReadingAssumption ==
    MaxFrames \in Nat /\ MaxChars \in Nat /\ MaxText \in Nat /\ Missing \subseteq Nat

VARIABLES
    source,     \* FileSource
    file,       \* what was mapped
    offset,     \* bytes, characters or records consumed
    delivered,  \* what on_parsed or parse_line was given
    errors,     \* error lines printed
    reach,      \* end of the bytes that the last message was read from
    pc          \* "reading" until process_file returns

vars == <<source, file, offset, delivered, errors, reach, pc>>

-----------------------------------------------------------------------------
(* Files.                                                                  *)

\* The shortest package a handler accepts (the ..._LEN constants).
MinLen == [R |-> 39, L |-> 26, A |-> 36, F |-> 40, E |-> 23,
           C |-> 36, X |-> 23, D |-> 19, U |-> 35, P |-> 36]

Types == DOMAIN MinLen
Sided == {"A", "F", "P"}

\* One frame: its type byte, declared length and, where one is sent, side byte.
Frames ==
    [type : {"?"}, len : {0, 1}, side : {"none"}]
    \cup UNION {[type : {t}, len : {0, MinLen[t] - 1, MinLen[t], MinLen[t] + 1},
                 side : IF t \in Sided THEN {"B", "S", "other"} ELSE {"none"}]
                : t \in Types}

\* Sequences of at most n.
Upto(S, n) == UNION {[1 .. k -> S] : k \in 0 .. n}

\* What stands between the commas of a line, good and bad.
FieldTexts ==
    <<{<<"5">>, <<"0">>, <<"9", "9">>, <<"x">>},
      {<<"N">>, <<"C">>, <<"A">>, <<"X">>},
      {<<"i">>, <<"i", "!">>, <<"i", "i", "i">>, <<"i", "//">>, <<>>},
      {<<"B">>, <<"S">>, <<" ">>},
      {<<"5">>, <<"0">>, <<"-", "5">>},
      {<<"5">>, <<"5", "5">>, <<"5", ".", "5">>, <<"0", ".", "0">>,
       <<"-", "5">>, <<"5", "x">>, <<"5", ".", "5", "x">>,
       <<"5", ".", "5", "5", "x">>, <<"5", ".", "5", " ">>,
       <<"5", " ", "//", "x">>},
      {<<"x">>, <<"//">>}>>

\* Lines that end behind the price or behind a field too many or too few.
Lines ==
    LET T == FieldTexts
        five == {<<a, b, c, d, e>> : a \in T[1], b \in T[2], c \in T[3],
                                     d \in T[4], e \in T[5]}
        six == {Append(line, text) : line \in five, text \in T[6]}
    IN  {<< <<>> >>, << <<" ">> >>} \cup five \cup six
        \cup {Append(line, text) : line \in six, text \in T[7]}

\* Texts of numbers and of what looks like one.
Texts == Upto({"-", "+", ".", "0", "5", "x"}, MaxText)

\* All but the one whose negation overflows.
RawPrices == 1 - Half .. Half - 1

\* Where a frame ends that begins at "start": the length takes two bytes.
BehindFrame(start, f) == start + 2 + f.len

\* Where frame i of a file ends.
FrameEnd(frames, i) == FoldLeft(BehindFrame, 0, SubSeq(frames, 1, i))

Init ==
    /\ \/ /\ source = "NASDAQ"
          /\ \E frames \in Upto(Frames, MaxFrames), missing \in Missing :
                /\ missing <= FrameEnd(frames, Len(frames))
                /\ file = [frames |-> frames,
                           size |-> FrameEnd(frames, Len(frames)) - missing]
       \/ /\ source = "CSV"
          /\ \E chars \in Upto({"x", "LF", "CR"}, MaxChars) :
                file = [chars |-> chars, size |-> Len(chars)]
       \/ /\ source = "Databento"
          /\ \E records \in Upto({"Mbo", "other"}, MaxFrames) :
                file = [records |-> records, size |-> Len(records)]
       \/ /\ source = "Line"
          /\ \E line \in Lines : file = [line |-> line, size |-> 1]
       \/ /\ source = "Number"
          /\ \E text \in Texts : file = [text |-> text, size |-> 1]
       \/ /\ source = "Price"
          /\ \E raw \in RawPrices : file = [raw |-> raw, size |-> 1]
    /\ offset = 0
    /\ delivered = <<>>
    /\ errors = 0
    /\ reach = 0
    /\ pc = "reading"

-----------------------------------------------------------------------------
(* NASDAQ.                                                                 *)

\* The frame that begins at the offset.
Frame == file.frames[CHOOSE i \in DOMAIN file.frames :
                        FrameEnd(file.frames, i - 1) = offset]

\* The byte behind the last one a handler reads from a package it accepts.
ReadUpTo(f) ==
    CASE f.type = "R" -> 39
      [] f.type = "L" -> 26
      [] f.type \in {"A", "C", "P"} -> 36
      [] f.type = "F" -> 40
      [] f.type \in {"E", "X"} -> 23
      [] f.type = "D" -> 19
      [] f.type = "U" -> 35

\* frame_end
FrameEndsAt == offset + 2 + Frame.len

\* Mutant: packages one byte short are taken.
AcceptsShort(f) ==
    /\ f.len > 0
    /\ f.type \in Types
    /\ f.len >= MinLen[f.type] - 1
    /\ f.side # "other"

\* The handlers: long enough, and a side of B or S where there is one.
Accepts(f) ==
    /\ f.len > 0
    /\ f.type \in Types
    /\ f.len >= MinLen[f.type]
    /\ f.side # "other"

\* Mutant: the rest of the file is given up after any error.
FailToEnd(to) ==
    /\ offset' = file.size
    /\ errors' = errors + 1
    /\ UNCHANGED <<delivered, reach>>

\* An error line; reading goes on at "to".
Fail(to) ==
    /\ offset' = to
    /\ errors' = errors + 1
    /\ UNCHANGED <<delivered, reach>>

\* parse_message: a truncated prefix, a truncated body, a package that its
\* handler accepts, or one that is empty, unknown or refused.
ParseMessage ==
    /\ source = "NASDAQ"
    /\ pc = "reading"
    /\ offset < file.size
    /\ \/ /\ offset + 2 > file.size
          /\ Fail(file.size)
       \/ /\ offset + 2 <= file.size
          /\ FrameEndsAt > file.size
          /\ Fail(file.size)
       \/ /\ offset + 2 <= file.size
          /\ FrameEndsAt <= file.size
          /\ IF Accepts(Frame)
             THEN /\ delivered' = Append(delivered, Frame)
                  /\ offset' = FrameEndsAt
                  /\ reach' = offset + 2 + ReadUpTo(Frame)
                  /\ UNCHANGED errors
             ELSE Fail(FrameEndsAt)
    /\ UNCHANGED <<source, file, pc>>

-----------------------------------------------------------------------------
(* CSV.                                                                    *)

EndsLine(i) == file.chars[i] \in {"LF", "CR"}

\* Mutant: the second character of CR LF is left for the next line.
AfterOne(end) == IF end < file.size THEN end + 1 ELSE end

\* Behind the terminator at "end", if there is one: LF, CR or CR LF.
AfterLine(end) ==
    IF end >= file.size THEN end
    ELSE IF /\ file.chars[end + 1] = "CR"
            /\ end + 1 < file.size
            /\ file.chars[end + 2] = "LF"
         THEN end + 2
         ELSE end + 1

\* find_next, and parse_line on the line it finds.
FindNext ==
    LET ends == {i \in offset .. file.size - 1 : EndsLine(i + 1)}
        end == IF ends = {} THEN file.size
               ELSE CHOOSE i \in ends : \A j \in ends : i <= j
    IN  /\ source = "CSV"
        /\ pc = "reading"
        /\ offset < file.size
        /\ delivered' = Append(delivered, SubSeq(file.chars, offset + 1, end))
        /\ offset' = AfterLine(end)
        /\ UNCHANGED <<source, file, errors, reach, pc>>

-----------------------------------------------------------------------------
(* Databento.                                                              *)

DecodeRecord ==
    /\ source = "Databento"
    /\ pc = "reading"
    /\ offset < file.size
    /\ offset' = offset + 1
    /\ IF file.records[offset + 1] = "Mbo"
       THEN delivered' = Append(delivered, offset + 1) /\ UNCHANGED errors
       ELSE errors' = errors + 1 /\ UNCHANGED delivered
    /\ UNCHANGED <<source, file, reach, pc>>

-----------------------------------------------------------------------------
(* Single lines, numbers and prices.                                       *)

\* What each of the files of one gives.
LineMessage == [line \in Lines |-> ParseLine(line)]
TextNumber == [text \in Texts |-> ParseFloat(text)]
PriceAgain == [raw \in RawPrices |-> ParseFloat(PriceText(raw))]

\* The one thing read, or an error line.
Deliver(read) ==
    /\ pc = "reading"
    /\ offset = 0
    /\ offset' = 1
    /\ delivered' = read
    /\ errors' = IF Has(read) THEN 0 ELSE 1
    /\ UNCHANGED <<source, file, reach, pc>>

ReadLine == source = "Line" /\ Deliver(LineMessage[file.line])

\* FixedPoint::Parse.
ReadNumber == source = "Number" /\ Deliver(TextNumber[file.text])

\* A price that was printed is read again; what an ITCH message carries is
\* printed and read at once.
ReadPrice ==
    /\ source = "Price"
    /\ \/ Deliver(PriceAgain[file.raw])
       \/ file.raw >= 0 /\ Deliver(PriceFromRaw(file.raw))

-----------------------------------------------------------------------------

\* Mutant: offset <= data.size() as the loop condition.
EndOfFilePassed ==
    /\ pc = "reading"
    /\ offset > file.size
    /\ pc' = "done"
    /\ UNCHANGED <<source, file, offset, delivered, errors, reach>>

\* The loop condition of NASDAQ, the end iterator of CSV, the null record.
EndOfFile ==
    /\ pc = "reading"
    /\ offset >= file.size
    /\ pc' = "done"
    /\ UNCHANGED <<source, file, offset, delivered, errors, reach>>

Done == pc = "done" /\ UNCHANGED vars

Next ==
    \/ ParseMessage
    \/ FindNext
    \/ DecodeRecord
    \/ ReadLine
    \/ ReadNumber
    \/ ReadPrice
    \/ EndOfFile
    \/ Done

Spec == Init /\ [][Next]_vars

\* process_file is a plain loop.
FairSpec == Spec /\ WF_vars(Next)

-----------------------------------------------------------------------------

\* A sequence that has the values of f at the numbers of a set, in their order.
Lists(sequence, numbers, f) ==
    /\ Len(sequence) = Cardinality(numbers)
    /\ \A i \in numbers : sequence[Cardinality({j \in numbers : j <= i})] = f[i]

\* A NASDAQ file that was cut off, or has bad messages in it, loses nothing
\* else: every complete and valid message is delivered, in order, and there
\* is one error for each bad one and one for the cut.
EveryCompleteMessageDelivered ==
    source = "NASDAQ" /\ pc = "done" =>
        LET complete == {i \in DOMAIN file.frames : FrameEnd(file.frames, i) <= file.size}
            good == {i \in complete :
                        /\ file.frames[i].type # "?"
                        /\ file.frames[i].len > 0
                        /\ file.frames[i].len >= MinLen[file.frames[i].type]
                        /\ file.frames[i].side \in {"none", "B", "S"}}
            whole == FrameEnd(file.frames, Cardinality(complete))
        IN  /\ Lists(delivered, good, file.frames)
            /\ errors = Cardinality(complete \ good)
                        + (IF whole < file.size THEN 1 ELSE 0)

\* No field is read from behind the end of the mapped file or from the next
\* frame.
ReadsStayInFrame == reach <= offset /\ offset <= file.size

\* A line begins with the file, behind a LF, and behind a CR that no LF follows.
Begins(i) ==
    \/ i = 1
    \/ file.chars[i - 1] = "LF"
    \/ file.chars[i - 1] = "CR" /\ file.chars[i] # "LF"

\* The characters from i up to the next terminator.
LineFrom(i) ==
    LET long == {n \in 0 .. Len(file.chars) + 1 - i :
                    \A j \in i .. i + n - 1 : ~ EndsLine(j)}
        length == CHOOSE n \in long : \A m \in long : m <= n
    IN  SubSeq(file.chars, i, i + length - 1)

\* A CSV file in any mixture of the three line endings, with or without one
\* at its end, gives each of its lines once, in order, empty ones included.
EveryLineDelivered ==
    source = "CSV" /\ pc = "done" =>
        Lists(delivered, {i \in DOMAIN file.chars : Begins(i)},
              [i \in DOMAIN file.chars |-> LineFrom(i)])

\* A whole number of a unit's decimal places that the text spells, given as
\* the digits before and behind its point.
Spelled(whole, parts) ==
    NumberOf(whole) * Scale
        + NumberOf(parts \o [i \in 1 .. Decimals - Len(parts) |-> "0"])

\* The texts of numbers: digits with an optional sign and, behind a point,
\* at least one more digit.
Spells(text, sign, whole, parts) ==
    /\ IsNumber(whole)
    /\ \/ text = sign \o whole /\ parts = <<>>
       \/ text = sign \o whole \o <<".">> \o parts /\ IsNumber(parts)

\* A text is read as the number it spells, with its sign even if the whole
\* part is zero; a text that spells none is refused.  Two things are not so
\* and are exempt: what follows the last decimal place is cut off, be it
\* digits or not, and a number too large for its type comes out as another.
NumberIsItsText ==
    source = "Number" /\ pc = "done" =>
        LET text == SubSeq(file.text, 1,
                        IF Dot(file.text) = 0 THEN Len(file.text)
                        ELSE Dot(file.text) + Len(Fraction(file.text)))
            cuts == {c \in {0, 1} \X (0 .. Len(text)) :
                        /\ Spells(text, SubSeq(text, 1, c[1]), SubSeq(text, c[1] + 1, c[2]),
                                  SubSeq(text, c[2] + 2, Len(text)))
                        /\ c[1] = 1 => Signed(text)}
            number(c) == Spelled(SubSeq(text, c[1] + 1, c[2]),
                                 SubSeq(text, c[2] + 2, Len(text)))
        IN  /\ cuts = {} => delivered = <<>> /\ errors = 1
            /\ \A c \in cuts :
                number(c) < Half =>
                    /\ errors = 0
                    /\ delivered = Some(IF text[1] = "-" THEN -number(c)
                                        ELSE number(c))

\* A price survives being printed and read again, and so does the raw price
\* of an ITCH message.
PriceParsesBack ==
    source = "Price" /\ pc = "done" => delivered = Some(file.raw)

\* A CSV line becomes a message only if its symbol and quantity are positive
\* numbers, its type, side and id are legal and its price begins like one, with
\* the values that the line spells; and a line that is made of six such fields
\* and nothing else but a comment or blanks at its end does become one.
LinesBecomeTheirMessage ==
    source = "Line" /\ pc = "done" =>
        LET line == file.line
            number(text) == IsNumber(text) /\ NumberOf(text) \in 1 .. WordLimit
            good == /\ Len(line) >= 6
                    /\ number(line[1])
                    /\ line[2] \in {<<"N">>, <<"C">>, <<"A">>}
                    /\ line[3] = <<"i">>
                    /\ line[4] \in {<<"B">>, <<"S">>}
                    /\ number(line[5])
        IN  /\ Len(delivered) + errors = 1
            /\ delivered # <<>> =>
                /\ good
                /\ delivered[1].symbol = NumberOf(line[1])
                /\ delivered[1].quantity = NumberOf(line[5])
                /\ delivered[1].side = (IF line[4] = <<"B">> THEN "Buy" ELSE "Sell")
                /\ delivered[1].price > 0
                /\ line[6] # <<"5", "5">> => delivered[1].price \div Scale = 5
            /\ (/\ good
                /\ Len(line) = 6
                /\ line[6] \in {<<"5">>, <<"5", ".", "5">>, <<"5", ".", "5", " ">>,
                                <<"5", " ", "//", "x">>})
               => delivered # <<>>

\* Reading always ends, whatever lengths the file claims.
ReadingEnds == <>(pc = "done")

=============================================================================
