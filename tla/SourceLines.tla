---------------------------- MODULE SourceLines ----------------------------
(***************************************************************************)
(* How parser/src/source.rs delivers a program's lines to the lexer: one   *)
(* current line, a queue of lines looked at ahead of time, and a stack of  *)
(* bounded bodies (here-documents and delimited bodies), each with the     *)
(* suspended line of the one below.  The lexer asks for a byte at a time   *)
(* and decides what it begins; a lookahead rewinds before anything else    *)
(* happens, so it is one step.  A byte is a symbol, and its offset the     *)
(* pair of its row and its column: offsets order in the same way.          *)
(***************************************************************************)
EXTENDS Integers, SequencesExt

CONSTANTS
    Row,        \* what a row of the text may be: sequences of symbols
    MaxRows,    \* bound: the rows of a text
    MaxBodies,  \* bound: bodies open at once
    Told,       \* the number a # line directive gives
    Nothing     \* no line, no bound, no byte

\* "<<" begins a here-document and "<<~" an indented one, both tagged "T"; "("
\* and the quote begin delimited bodies; "#" begins a comment and "#line" one
\* that is a directive at the start of a row; "=pod" and "=cut" are what they
\* are at the start of a row; "e" is a byte that is not ASCII.
Symbol == {"w", "e", "T", " ", "<<", "<<~", "(", ")", "quote", "\\", "#", "#line", "=pod", "=cut"}

\* A line of the text as the lexer holds it, its cursor at pos and its view cut
\* to len bytes; and where a body ends.
LineRecord ==
    [row : Nat, number : Nat, indent : Nat, pos : Nat, len : Nat, terminated : BOOLEAN]
BoundRecord == [row : Nat, col : Nat]

ASSUME SourceLinesAssumption ==
    /\ MaxRows \in Nat /\ MaxBodies \in Nat /\ Told \in Nat
    /\ \A r \in Row : r \in Seq(Symbol)
    /\ Nothing \notin LineRecord \cup BoundRecord \cup Symbol \cup {"\n"}

VARIABLES
    text,       \* the program: its rows, [symbols, terminated]
    unread,     \* cursor: the next row to be read from the text
    queue,      \* queued_lines: [row, indent] of the lines to deliver first
    line,       \* the current line, or Nothing
    stack,      \* context_stack: [line, bound] of the open bodies
    number,     \* line_number
    utf8,       \* effective_utf8, under use utf8
    status,     \* "lexing", "done" or "error"
    delivered,  \* history: the offsets given to the lexer
    passed,     \* history: offsets that are markers: closing delimiters,
                \* terminators, the indents of <<~
    last,       \* history: per body, the base first, the last offset it gave
    shift,      \* history: how far directives have moved the numbers
    steady      \* history: no here-document yet, no directive inside a body

source == <<unread, queue, line, stack, number, utf8>>
history == <<delivered, passed, last, shift, steady>>
vars == <<text, source, status, history>>

-----------------------------------------------------------------------------
(* Lines.                                                                  *)

Symbols(row) == text[row].symbols
Terminated(row) == text[row].terminated
AsciiOnly(row) == ~Contains(Symbols(row), "e")

\* Offsets in the order of the text, and the ends of a set of them.
Before(o, p) == o[1] < p[1] \/ (o[1] = p[1] /\ o[2] < p[2])
First(os) == CHOOSE o \in os : \A p \in os : ~Before(p, o)
Final(os) == CHOOSE o \in os : \A p \in os : ~Before(o, p)

\* The view a bound leaves of a line: all of it, the part before the bound, or
\* nothing.
SetEof(l, b) ==
    LET whole == b = Nothing \/ b.row > l.row
    IN  [l EXCEPT !.len = CASE whole -> Len(Symbols(l.row))
                            [] ~whole /\ b.row = l.row -> b.col
                            [] ~whole /\ b.row < l.row -> 0,
                  !.terminated = whole /\ Terminated(l.row)]

\* The byte under the cursor, "\n" at the end of a terminated line.
PeekAt(l, col) ==
    CASE col < l.len -> Symbols(l.row)[col + 1]
      [] col = l.len /\ l.terminated -> "\n"
      [] OTHER -> Nothing

Exhausted == line # Nothing => PeekAt(line, line.pos) = Nothing
At(symbols) == line # Nothing /\ PeekAt(line, line.pos) \in symbols

\* The columns a line still has to give.
Ahead(l) == {<<l.row, c>> : c \in {d \in l.pos .. l.len : d < l.len \/ l.terminated}}

-----------------------------------------------------------------------------
(* The stream of lines after the current one.                              *)

Bound(s) == IF s = <<>> THEN Nothing ELSE Last(s).bound

\* Every line that is still to come: queued, then unread.
Coming ==
    queue \o [i \in 1 .. (Len(text) + 1 - unread) |-> [row |-> unread + i - 1, indent |-> 0]]

\* How many of them next_line delivers before it meets the bound b.
Reach(b) ==
    Max({k \in 0 .. Len(Coming) : \A i \in 1 .. k : b = Nothing \/ Coming[i].row <= b.row})

\* The i-th of them as next_line delivers it under b.
LineAt(i, b) ==
    SetEof([row |-> Coming[i].row, number |-> number + i - 1, indent |-> Coming[i].indent,
            pos |-> Coming[i].indent, len |-> 0, terminated |-> FALSE], b)

\* Fault: what is put back is lost.
TakeAway(k, qs) ==
    /\ queue' = SubSeq(queue, k + 1, Len(queue))
    /\ unread' = unread + (IF k > Len(queue) THEN k - Len(queue) ELSE 0)

\* Fault: the lines are put back behind the others.
TakeBehind(k, qs) ==
    /\ queue' = SubSeq(queue, k + 1, Len(queue)) \o qs
    /\ unread' = unread + (IF k > Len(queue) THEN k - Len(queue) ELSE 0)

\* k lines have been taken from the stream, and the lines qs put back.
Take(k, qs) ==
    /\ queue' = qs \o SubSeq(queue, k + 1, Len(queue))
    /\ unread' = unread + (IF k > Len(queue) THEN k - Len(queue) ELSE 0)

NextLine ==
    /\ line' = LineAt(1, Bound(stack))
    /\ utf8' = ~AsciiOnly(Coming[1].row)
    /\ number' = number + 1
    /\ Take(1, <<>>)

\* Fault: the lines looked at stay counted.
RewindCounted(l, k, qs) ==
    /\ line' = SetEof(l, Bound(stack))
    /\ utf8' = ~AsciiOnly(l.row)
    /\ number' = l.number + 1 + k
    /\ Take(k, qs)

\* A lookahead that crossed k lines ends: the line it began on, its cursor at
\* l.pos, is the current one again, the lines are back in the queue but for
\* what the scan made of them, and the counter is set from the line's number.
Rewind(l, k, qs) ==
    /\ line' = SetEof(l, Bound(stack))
    /\ utf8' = ~AsciiOnly(l.row)
    /\ number' = l.number + 1
    /\ Take(k, qs)

\* The lexing of a program: its base line is read by the first LoadLine.
Begin(program) ==
    /\ text = program
    /\ unread = 1 /\ queue = <<>> /\ line = Nothing /\ stack = <<>> /\ number = 1
    /\ utf8 = FALSE /\ status = "lexing"
    /\ delivered = {} /\ passed = {} /\ last = <<<<0, 0>>>> /\ shift = 0 /\ steady = TRUE

\* Any rows, the last with or without its newline.
Init ==
    \E n \in 1 .. MaxRows, final \in BOOLEAN : \E rows \in [1 .. n -> Row] :
        /\ final \/ rows[n] # <<>>
        /\ Begin([i \in 1 .. n |-> [symbols |-> rows[i], terminated |-> i < n \/ final]])

\* The lexer has been given the offsets os.
Give(os) ==
    /\ delivered' = delivered \cup os
    /\ last' = IF os = {} THEN last ELSE [last EXCEPT ![Len(last)] = Final(os)]

Lexing == status = "lexing"

-----------------------------------------------------------------------------
(* Bytes and lines.                                                        *)

\* peek_byte on an exhausted line loads the next.
LoadLine ==
    /\ Lexing /\ Exhausted /\ Reach(Bound(stack)) > 0
    /\ NextLine
    /\ UNCHANGED <<text, stack, status, history>>

\* One byte that begins nothing: text of a body, punctuation, a newline.
Byte ==
    /\ Lexing /\ ~Exhausted
    /\ line' = [line EXCEPT !.pos = @ + 1]
    /\ Give({<<line.row, line.pos>>})
    /\ UNCHANGED <<text, unread, queue, stack, number, utf8, status, passed, shift, steady>>

\* From col on, the line has only white space and perhaps a comment.
Blank(l, col) ==
    \A c \in (col + 1) .. l.len :
        Symbols(l.row)[c] = " " \/ \E d \in (col + 1) .. c : Symbols(l.row)[d] \in {"#", "#line"}

\* A word, and at_fat_comma after it: white space and comments are looked over
\* up to the first byte of something else; directives in them do nothing.
Word ==
    /\ Lexing /\ At({"w", "e", "T"})
    /\ LET b == Bound(stack)
           found == {k \in 1 .. Reach(b) : ~Blank(LineAt(k, b), LineAt(k, b).pos)}
           crossed == CASE ~Blank(line, line.pos + 1) -> 0
                        [] found # {} -> Min(found)
                        [] OTHER -> Reach(b)
       IN  Rewind([line EXCEPT !.pos = @ + 1], crossed, SubSeq(Coming, 1, crossed))
    /\ Give({<<line.row, line.pos>>})
    /\ UNCHANGED <<text, stack, status, passed, shift, steady>>

\* A comment; at the start of a line it may be a directive, which numbers the
\* next line.
Comment ==
    /\ Lexing /\ At({"#", "#line"})
    /\ LET tells == At({"#line"}) /\ line.pos = line.indent
           next == IF tells THEN Told ELSE number
       IN  /\ shift' = IF tells /\ Reach(Bound(stack)) > 0 THEN Told - Coming[1].row ELSE shift
           /\ steady' = (steady /\ (tells => stack = <<>>))
           /\ IF Reach(Bound(stack)) > 0
              THEN /\ line' = [LineAt(1, Bound(stack)) EXCEPT !.number = next]
                   /\ utf8' = ~AsciiOnly(Coming[1].row)
                   /\ number' = next + 1
                   /\ Take(1, <<>>)
              ELSE /\ line' = [line EXCEPT !.pos = line.len + (IF line.terminated THEN 1 ELSE 0)]
                   /\ number' = next
                   /\ UNCHANGED <<utf8, unread, queue>>
    /\ Give(Ahead(line))
    /\ UNCHANGED <<text, stack, status, passed>>

\* skip_pod: every line up to one that begins with =cut, or to the bound.
Pod ==
    /\ Lexing /\ At({"=pod"}) /\ line.pos = line.indent
    /\ LET b == Bound(stack)
           cuts == {k \in 1 .. Reach(b) : PeekAt(LineAt(k, b), Coming[k].indent) = "=cut"}
           k == IF cuts # {} THEN Min(cuts) ELSE Reach(b)
       IN  /\ Take(k, <<>>)
           /\ number' = number + k
           /\ utf8' = IF k = 0 THEN utf8 ELSE ~AsciiOnly(Coming[k].row)
           /\ Give(Ahead(line) \cup UNION {Ahead(LineAt(i, b)) : i \in 1 .. k})
    /\ line' = Nothing
    /\ UNCHANGED <<text, stack, status, passed, shift, steady>>

-----------------------------------------------------------------------------
(* Bodies.                                                                 *)

\* The bound of the nearest body, from the innermost, whose current line ends
\* in a newline: here-document bodies are looked for under it.
HostBound ==
    LET current(i) == IF i = Len(stack) THEN line ELSE stack[i + 1].line
        hosts == {i \in 1 .. Len(stack) : current(i).terminated}
    IN  IF hosts = {} THEN Nothing ELSE stack[Max(hosts)].bound

\* The columns of white space a line begins with, from its indent.
Leading(l) == Max({n \in 0 .. (l.len - l.pos) : \A c \in 1 .. n : Symbols(l.row)[l.pos + c] = " "})

TerminatorMatches(l, indented) ==
    SubSeq(Symbols(l.row), l.pos + 1 + (IF indented THEN Leading(l) ELSE 0), l.len) = <<"T">>

Push(intro, bound) ==
    /\ stack' = Append(stack, [line |-> intro, bound |-> bound])
    /\ last' = Append([last EXCEPT ![Len(last)] = <<line.row, line.pos>>], <<0, 0>>)
    /\ delivered' = delivered \cup {<<line.row, line.pos>>}
    /\ UNCHANGED <<text, status, shift>>

\* The scan has failed: the guard rewinds and the parse is over.
Unterminated == status' = "error" /\ UNCHANGED <<text, source, history>>

\* <<T, or <<~T: the lines up to the terminator are the body, and come before
\* the rest of this line.  The terminator is dropped as the scan meets it.
\* <<~ takes the terminator's indent from every line that is not blank.
StartHeredoc ==
    /\ Lexing /\ At({"<<", "<<~"}) /\ Len(stack) < MaxBodies
    /\ LET indented == At({"<<~"})
           b == HostBound
           ends == {k \in 1 .. Reach(b) : TerminatorMatches(LineAt(k, b), indented)}
           k == Min(ends)
           end == LineAt(k, b)
           indent == IF indented THEN Leading(end) ELSE 0
           body == SubSeq(Coming, 1, k - 1)
           empty(i) == LineAt(i, b).pos = LineAt(i, b).len
           intro == [line EXCEPT !.pos = @ + 1]
       IN  IF ends = {} THEN Unterminated
           ELSE IF \E i \in 1 .. (k - 1) : ~empty(i) /\ Leading(LineAt(i, b)) < indent THEN Unterminated
           ELSE LET stamped == [i \in 1 .. (k - 1) |->
                                    IF empty(i) THEN body[i] ELSE [body[i] EXCEPT !.indent = @ + indent]]
                IN  /\ Take(k, stamped)
                    /\ number' = line.number + 1
                    /\ utf8' = ~AsciiOnly(line.row)
                    /\ line' = Nothing
                    /\ Push(SetEof(intro, Bound(stack)), [row |-> end.row, col |-> 0])
                    /\ passed' = passed \cup Ahead(end)
                          \cup UNION {{<<body[i].row, c>> : c \in body[i].indent .. (stamped[i].indent - 1)} :
                                        i \in 1 .. (k - 1)}
                    /\ steady' = FALSE

\* The lines a scan for a closing delimiter walks over: the rest of the current
\* one, then those after it up to the bound; and its bytes, as <<line, column>>.
ScanLine(k) == IF k = 0 THEN [line EXCEPT !.pos = @ + 1] ELSE LineAt(k, Bound(stack))
Walked == UNION {{<<k, o[2]>> : o \in Ahead(ScanLine(k))} : k \in 0 .. Reach(Bound(stack))}

\* A backslash that is not escaped itself protects the byte after it.
Escaped(p) ==
    LET l == ScanLine(p[1])
        run == {n \in 0 .. (p[2] - l.pos) : \A c \in (p[2] - n) .. (p[2] - 1) : PeekAt(l, c) = "\\"}
    IN  Max(run) % 2 = 1

\* The delimiters that could close a body: paired ones nest, so as many have
\* been closed before it as opened.
Closers(open, close) ==
    LET walked == Walked
        live(byte) == {p \in walked : PeekAt(ScanLine(p[1]), p[2]) = byte /\ ~Escaped(p)}
        closing == live(close)
        opening == live(open) \ closing
        before(p, ps) == Cardinality({q \in ps : Before(q, p)})
    IN  {p \in closing : before(p, closing) = before(p, opening)}

\* A delimited body: the scan finds where it ends, and the line of the closing
\* delimiter, its cursor past it, is what the construct resumes with.
StartDelimitedBody ==
    /\ Lexing /\ At({"(", "quote"}) /\ Len(stack) < MaxBodies
    /\ LET open == PeekAt(line, line.pos)
           closers == Closers(open, IF open = "(" THEN ")" ELSE open)
           closer == First(closers)
           k == closer[1]
           ends == ScanLine(k)
           bound == [row |-> ends.row, col |-> closer[2]]
       IN  IF closers = {} THEN Unterminated
           ELSE /\ Take(k, SubSeq(Coming, 1, k))
                /\ number' = line.number + 1
                /\ utf8' = ~AsciiOnly(line.row)
                /\ line' = SetEof([line EXCEPT !.pos = @ + 1], bound)
                /\ Push([ends EXCEPT !.pos = closer[2] + 1], bound)
                /\ passed' = passed \cup {<<bound.row, bound.col>>}
                /\ UNCHANGED steady

\* The body is exhausted and the next line starts past its bound: the frame is
\* popped and the suspended line is current again.  utf8 stays what it was.
EndBody ==
    /\ Lexing /\ Exhausted /\ Reach(Bound(stack)) = 0 /\ stack # <<>>
    /\ line' = SetEof(Last(stack).line, Bound(Front(stack)))
    /\ stack' = Front(stack) /\ last' = Front(last)
    /\ UNCHANGED <<text, unread, queue, number, utf8, status, delivered, passed, shift, steady>>

Done ==
    /\ Lexing /\ Exhausted /\ Reach(Nothing) = 0 /\ stack = <<>>
    /\ status' = "done"
    /\ UNCHANGED <<text, source, history>>

Next ==
    \/ LoadLine \/ Byte \/ Word \/ Comment \/ Pod
    \/ StartHeredoc \/ StartDelimitedBody \/ EndBody \/ Done

Spec == Init /\ [][Next]_vars

-----------------------------------------------------------------------------
(* Properties.                                                             *)

Columns(row) == {c \in 0 .. Len(Symbols(row)) : c < Len(Symbols(row)) \/ Terminated(row)}
AllOffsets == UNION {{<<r, c>> : c \in Columns(r)} : r \in DOMAIN text}

\* The pieces of the text that are still to be delivered: by the current line,
\* by each suspended line, and by each line to come, under the bound of the
\* innermost body that reaches it.
Reader(row) ==
    LET over == {i \in DOMAIN stack : stack[i].bound.row >= row}
    IN  IF over = {} THEN Nothing ELSE stack[Max(over)].bound
Pieces ==
    (IF line = Nothing THEN <<>> ELSE <<Ahead(line)>>)
    \o [i \in DOMAIN stack |->
            Ahead(SetEof(stack[i].line, IF i = 1 THEN Nothing ELSE stack[i - 1].bound))]
    \o [i \in DOMAIN Coming |-> Ahead(LineAt(i, Reader(Coming[i].row)))]

\* Every variable has its type; queued lines are read ones, in the order of the
\* text.  (source.rs LexerLine, Parser)
TypeOK ==
    /\ text \in Seq([symbols : Seq(Symbol), terminated : BOOLEAN])
    /\ unread \in 1 .. (Len(text) + 1) /\ number \in Nat /\ utf8 \in BOOLEAN
    /\ queue \in Seq([row : Nat, indent : Nat])
    /\ \A i, j \in DOMAIN queue : i < j => queue[i].row < queue[j].row
    /\ \A i \in DOMAIN queue : queue[i].row < unread
    /\ line \in LineRecord \cup {Nothing}
    /\ stack \in Seq([line : LineRecord, bound : BoundRecord])
    /\ status \in {"lexing", "done", "error"}
    /\ delivered \cup passed \subseteq AllOffsets
    /\ last \in Seq(Nat \X Nat) /\ Len(last) = Len(stack) + 1
    /\ shift \in Int /\ steady \in BOOLEAN

\* No line the lexer holds shows anything past the bound of the body it is
\* read in.  (source.rs set_eof)
WithinBound ==
    /\ line # Nothing => line = SetEof(line, Bound(stack))
    /\ \A i \in DOMAIN stack :
        stack[i].line = SetEof(stack[i].line, IF i = 1 THEN Nothing ELSE stack[i - 1].bound)

\* Whatever bodies nest, whatever is looked at ahead of time, and however often
\* a line is queued, cut at a bound and resumed: every byte of the program is
\* delivered once, or is a marker, or is still to come from one place, and no
\* line shows anything past its body's bound.
\* (source.rs next_line, start_heredoc)
EachByteOnce ==
    Lexing =>
    LET ps == Pieces IN
    /\ \A i, j \in DOMAIN ps : i # j => ps[i] \cap ps[j] = {}
    /\ \A i \in DOMAIN ps : ps[i] \cap (delivered \cup passed) = {}
    /\ delivered \cap passed = {}
    /\ (UNION Range(ps)) \cup delivered \cup passed = AllOffsets
    /\ WithinBound

\* Within one body the bytes come in the order of the text, whatever bodies are
\* delivered in between.  (source.rs next_line)
InOrder ==
    [][\A o \in delivered' \ delivered : Before(last[Len(last)], o)]_vars

\* A line's number is its place in the file, moved by the directives met so
\* far: lookahead and the replay of lines change no number, as long as no
\* here-document has begun and no directive has been met inside a body.  (source.rs Lookahead)
NumbersSteady == steady /\ line # Nothing => line.number = line.row + shift

\* The same of every program without a directive inside a body.
NumbersTrue == line # Nothing => line.number = line.row + shift

\* The lexer decodes UTF-8 exactly on the lines that are not ASCII.
Utf8InStep == line # Nothing => utf8 = ~AsciiOnly(line.row)

=============================================================================
