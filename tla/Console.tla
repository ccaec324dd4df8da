------------------------------ MODULE Console ------------------------------
(***************************************************************************)
(* The command line on the UART: the receive interrupt stores characters   *)
(* into UART0_buf (UART/UART.c) while debug() in the main loop searches    *)
(* the same buffer for keywords, character by character, executes what it  *)
(* finds and clears the buffer (UART/debug.c).  Nothing locks the buffer.  *)
(* main cannot run during the interrupt, which may fall between any two    *)
(* accesses of main to the buffer.                                         *)
(*                                                                         *)
(* A keyword is a word over a small alphabet.  What executing it prints is *)
(* left out.                                                               *)
(***************************************************************************)
EXTENDS Integers, Sequences, SequencesExt

CONSTANTS
    Keywords,   \* "info", "debug", "arp", "ping ", in the order of debug()
    Heads,      \* what a user types in front of a keyword, or of nothing
    Tails,      \* what a user types between that and Enter
    BufSize,    \* size of UART0_buf (100)
    Patient,    \* does the user wait for main before a new line?
    MaxFifo,    \* bound: characters waiting for the interrupt (16)
    MaxLines    \* bound: lines the user types

NUL == "NUL"
CR == "CR"
Characters == UNION {ToSet(w) : w \in ToSet(Keywords) \cup Heads \cup Tails}

Menu == 0
Nothing == -1
Word(head, k) == IF k = Nothing THEN head ELSE head \o Keywords[k]

\* Is this keyword at place n of a text of which the first characters, up to
\* split, are those of another one?
FoundAt(n, word, split, before, text) ==
    \A p \in DOMAIN word :
        LET place == n + p
        IN  IF place <= split THEN place \in DOMAIN before /\ before[place] = word[p]
                              ELSE place \in DOMAIN text /\ text[place] = word[p]

\* What the buffer relies on: a keyword is found only where it is to be, even by a
\* search that has read the beginning of the line before; no line gets to the end
\* of the buffer; and what is typed behind a keyword has none of the characters of
\* a keyword.
ASSUME ConsoleAssumption ==
    /\ Keywords \in Seq(Seq(Characters)) /\ Keywords # <<>>
    /\ \A k \in DOMAIN Keywords : Keywords[k] # <<>>
    /\ Heads \cup Tails \subseteq Seq(Characters)
    /\ \A before \in Heads \cup {<<>>}, h \in Heads,
          k \in {Nothing} \cup DOMAIN Keywords, l \in DOMAIN Keywords,
          n, split \in 0 .. BufSize :
           FoundAt(n, Keywords[l], split, before, Word(h, k)) => l = k /\ n = Len(h)
    /\ \A k \in DOMAIN Keywords, t \in Tails : ToSet(t) \cap ToSet(Keywords[k]) = {}
    /\ \A h \in Heads, k \in DOMAIN Keywords, t \in Tails :
           Len(h) + Len(Keywords[k]) + Len(t) + 1 < BufSize
    /\ {NUL, CR} \cap Characters = {}
    /\ Patient \in BOOLEAN
    /\ BufSize \in Nat \ {0, 1} /\ {MaxFifo, MaxLines} \subseteq Nat

VARIABLES
    UART0_buf,
    bufCount_0,
    fifo,       \* characters in the UART that the interrupt has not fetched
    serving,    \* is the interrupt under way?
    pc,         \* where main is in debug(): "loop" outside of it
    keyword,    \* the keyword searched for
    first, j,   \* SearchIndexOf: firstOcc and the position in the keyword;
                \* Reset: first is the position
    fresh,      \* characters were stored since main entered debug()
    line,       \* the user's line: its text, what it asks for, and the
                \* character that completes this
    sofar,      \* how much of it is typed
    lines,      \* lines begun
    typed,      \* history: what was asked for
    executed    \* history: what was executed

mainVars == <<pc, keyword, first, j>>
userVars == <<line, sofar, lines, typed>>
vars == <<UART0_buf, bufCount_0, fifo, serving, mainVars, fresh, userVars, executed>>

Positions == 0 .. BufSize - 1

---------------------------------------------------------------------------
(* The interrupt *)

\* Reset stops at the first NUL.
Cleared(buf) ==
    [p \in Positions |->
        IF \A q \in 0 .. p : buf[q] # NUL THEN NUL ELSE buf[p]]

UART0_IntHandler ==
    /\ ~serving /\ fifo # <<>>
    /\ serving' = TRUE
    /\ UART0_buf' = IF bufCount_0 = 0 THEN Cleared(UART0_buf) ELSE UART0_buf
    /\ UNCHANGED <<bufCount_0, fifo, mainVars, fresh, userVars, executed>>

\* Mutant: Enter does not begin a new line.
WrongStore(c) ==
    /\ UART0_buf' = [UART0_buf EXCEPT ![bufCount_0] = c]
    /\ bufCount_0' = bufCount_0 + 1

Store(c) ==
    /\ UART0_buf' = [UART0_buf EXCEPT ![bufCount_0] = c]
    /\ bufCount_0' = IF c = CR THEN 0 ELSE bufCount_0 + 1

\* One round of its loop, which fetches all characters there are, or its end.
UARTGetBuffer ==
    /\ serving
    /\ \/ /\ fifo # <<>>
          /\ Store(Head(fifo))
          /\ fifo' = Tail(fifo)
          /\ fresh' = TRUE
          /\ UNCHANGED serving
       \/ /\ fifo = <<>>
          /\ serving' = FALSE
          /\ UNCHANGED <<UART0_buf, bufCount_0, fifo, fresh>>
    /\ UNCHANGED <<mainVars, userVars, executed>>

Interrupt == UART0_IntHandler \/ UARTGetBuffer

---------------------------------------------------------------------------
(* debug() *)

NextKeyword ==
    IF keyword < Len(Keywords)
    THEN pc' = "search" /\ keyword' = keyword + 1 /\ first' = 0 /\ j' = 1
    ELSE pc' = "loop" /\ UNCHANGED <<keyword, first, j>>

Goto(place) == pc' = place /\ UNCHANGED <<keyword, first, j>>

Enter ==
    /\ pc = "loop"
    /\ fresh' = FALSE
    /\ pc' = CASE UART0_buf[0] = NUL -> "loop"
               [] UART0_buf[0] = CR -> "menu"
               [] OTHER -> "search"
    /\ keyword' = 1 /\ first' = 0 /\ j' = 1
    /\ UNCHANGED <<UART0_buf, bufCount_0, fifo, serving, userVars, executed>>

\* Only the first character is cleared.
ShowMenu ==
    /\ pc = "menu"
    /\ UART0_buf' = [UART0_buf EXCEPT ![0] = NUL]
    /\ executed' = Append(executed, Menu)
    /\ Goto("search")
    /\ UNCHANGED <<bufCount_0, fifo, serving, fresh, userVars>>

\* Mutant: searches on behind the mismatch.
WrongSearchIndexOf ==
    /\ pc = "search"
    /\ LET c == UART0_buf[first + j - 1]
           str == Keywords[keyword]
       IN  \/ c = NUL /\ NextKeyword
           \/ c = str[j] /\ j < Len(str) /\ j' = j + 1 /\ UNCHANGED <<pc, keyword, first>>
           \/ c = str[j] /\ j = Len(str) /\ Goto("execute")
           \/ c # NUL /\ c # str[j] /\ first' = first + j /\ j' = 1 /\ UNCHANGED <<pc, keyword>>
    /\ UNCHANGED <<UART0_buf, bufCount_0, fifo, serving, fresh, userVars, executed>>

\* One round of the loops of SearchIndexOf.
SearchIndexOf ==
    /\ pc = "search"
    /\ LET c == UART0_buf[first + j - 1]
           str == Keywords[keyword]
       IN  \/ c = NUL /\ NextKeyword
           \/ c = str[j] /\ j < Len(str) /\ j' = j + 1 /\ UNCHANGED <<pc, keyword, first>>
           \/ c = str[j] /\ j = Len(str) /\ Goto("execute")
           \/ c # NUL /\ c # str[j] /\ first' = first + 1 /\ j' = 1 /\ UNCHANGED <<pc, keyword>>
    /\ UNCHANGED <<UART0_buf, bufCount_0, fifo, serving, fresh, userVars, executed>>

\* Mutant: the buffer is not cleared.
WrongExecute ==
    /\ pc = "execute"
    /\ executed' = Append(executed, keyword)
    /\ NextKeyword
    /\ UNCHANGED <<UART0_buf, bufCount_0, fifo, serving, fresh, userVars>>

Execute ==
    /\ pc = "execute"
    /\ executed' = Append(executed, keyword)
    /\ pc' = "reset" /\ first' = 0 /\ j' = 1
    /\ UNCHANGED <<UART0_buf, bufCount_0, fifo, serving, keyword, fresh, userVars>>

\* One round of the loop of Reset.
Reset ==
    /\ pc = "reset"
    /\ \/ /\ UART0_buf[first] = NUL
          /\ NextKeyword
          /\ UNCHANGED UART0_buf
       \/ /\ UART0_buf[first] # NUL
          /\ UART0_buf' = [UART0_buf EXCEPT ![first] = NUL]
          /\ first' = first + 1
          /\ UNCHANGED <<pc, keyword, j>>
    /\ UNCHANGED <<bufCount_0, fifo, serving, fresh, userVars, executed>>

debug == ~serving /\ (Enter \/ ShowMenu \/ SearchIndexOf \/ Execute \/ Reset)

---------------------------------------------------------------------------
(* The user *)

\* Enter alone asks for the menu, a keyword for itself when it is typed in full.
Line(head, k, tail) ==
    LET text == Word(head, k) \o tail \o <<CR>>
    IN  [text |-> text,
         ask |-> IF text = <<CR>> THEN Menu ELSE k,
         at |-> IF text = <<CR>> THEN 1 ELSE Len(Word(head, k))]

NoLine == [text |-> <<>>, ask |-> Nothing, at |-> 0]
Lines == {Line(head, k, tail) : head \in Heads, k \in {Nothing} \cup DOMAIN Keywords,
                                tail \in Tails}

\* What was typed before has had its effect on the screen, if it has any: main
\* clears the buffer before the last characters of its answer leave the UART.
Answered == fifo = <<>> /\ pc = "loop" /\ ~fresh

BeginLine ==
    /\ sofar = Len(line.text) /\ lines < MaxLines
    /\ Patient => Answered
    /\ line' \in Lines /\ sofar' = 0
    /\ lines' = lines + 1
    /\ UNCHANGED <<UART0_buf, bufCount_0, fifo, serving, mainVars, fresh, typed, executed>>

Type ==
    /\ sofar < Len(line.text)
    /\ Len(fifo) < MaxFifo
    /\ sofar' = sofar + 1
    /\ fifo' = Append(fifo, line.text[sofar'])
    /\ typed' = IF line.ask # Nothing /\ sofar' = line.at THEN Append(typed, line.ask)
                                                          ELSE typed
    /\ UNCHANGED <<UART0_buf, bufCount_0, serving, mainVars, fresh, line, lines, executed>>

---------------------------------------------------------------------------

Init ==
    /\ UART0_buf = [p \in Positions |-> NUL]
    /\ bufCount_0 = 0
    /\ fifo = <<>> /\ serving = FALSE
    /\ pc = "loop" /\ keyword = 1 /\ first = 0 /\ j = 1
    /\ fresh = FALSE
    /\ line = NoLine /\ sofar = 0 /\ lines = 0
    /\ typed = <<>> /\ executed = <<>>

Next == Interrupt \/ debug \/ BeginLine \/ Type

\* The main loop never stops, the UART interrupts, and a line that is begun is
\* finished; a new one need not be begun.
Spec == Init /\ [][Next]_vars
FairSpec == Spec /\ WF_vars(Interrupt) /\ WF_vars(debug) /\ WF_vars(Type)

---------------------------------------------------------------------------
(* Properties *)

\* Buffer, indices and histories are in range; the positions main reads, and
\* writes, are in the buffer.
TypeOK ==
    /\ UART0_buf \in [Positions -> Characters \cup {NUL, CR}]
    /\ bufCount_0 \in 0 .. BufSize - 2
    /\ fifo \in Seq(Characters \cup {CR}) /\ Len(fifo) <= MaxFifo
    /\ serving \in BOOLEAN
    /\ pc \in {"loop", "menu", "search", "execute", "reset"}
    /\ keyword \in DOMAIN Keywords
    /\ j \in DOMAIN Keywords[keyword]
    /\ first \in Positions /\ first + j - 1 \in Positions
    /\ fresh \in BOOLEAN
    /\ line \in Lines \cup {NoLine} /\ sofar \in 0 .. Len(line.text)
    /\ lines \in 0 .. MaxLines

\* Main executes what the user asks for, in this order, each once and not before
\* it is typed in full, wherever the interrupts fall: a character must not be lost
\* to a Reset, found in a line of the past or found twice.
ExecutedAsTyped == IsPrefix(executed, typed)

\* Whatever the user asks for is executed.
CommandsExecuted == \A n \in 1 .. MaxLines : Len(typed) >= n ~> Len(executed) >= n
=============================================================================
