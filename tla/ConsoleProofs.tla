--------------------------- MODULE ConsoleProofs ---------------------------
(***************************************************************************)
(* Theorems about the command line, for any keywords, lines and sizes that *)
(* ConsoleAssumption admits.  The buffer holds of the characters of        *)
(* keywords only those of the line that is typed, and until its first      *)
(* character is stored, those in front of the line before.                 *)
(***************************************************************************)
EXTENDS Console, SequenceTheorems, TLAPS

\* The characters that keywords are made of.
Key(c) == \E k \in DOMAIN Keywords : c \in ToSet(Keywords[k])

NoKeys == \A p \in Positions : ~Key(UART0_buf[p])

---------------------------------------------------------------------------
(* Any user *)

\* The characters a to b of the receive FIFO are of one line.
Unbroken(a, b) == \A i \in a .. b : fifo[i] # CR

\* What is typed of a line that is not finished.
Begun == IF sofar = Len(line.text) THEN 0 ELSE sofar

\* What waits in the FIFO fits into the buffer.
RunsFit ==
    /\ \A b \in 0 .. Len(fifo) : Unbroken(1, b) => bufCount_0 + b <= BufSize - 2
    /\ \A a \in 1 .. Len(fifo), b \in 1 .. Len(fifo) :
           Unbroken(a, b) => b - a + 1 <= BufSize - 2
    /\ Unbroken(1, Len(fifo)) => bufCount_0 + Len(fifo) <= Begun
    /\ \A a \in 1 .. Len(fifo) + 1 : Unbroken(a, Len(fifo)) => Len(fifo) - a + 1 <= Begun

\* The last character of the buffer ends every search.
LastIsNul == UART0_buf[BufSize - 1] = NUL

\* Reset counts in first alone.
AtFirst == pc \in {"menu", "reset"} => j = 1

\* The inductive invariant for any user.
BoundsInv == TypeOK /\ RunsFit /\ LastIsNul /\ AtFirst

---------------------------------------------------------------------------
(* A user who waits for main *)

\* Characters of the line that are in the buffer.
Stored == sofar - Len(fifo)

\* What the line asks for was executed.
Done == line.ask # Nothing /\ sofar >= line.at /\ typed = executed

\* All that is under way is of one line.
Flow ==
    /\ Len(fifo) <= sofar
    /\ \A i \in DOMAIN fifo : fifo[i] = line.text[Stored + i]
    /\ bufCount_0 = IF Stored = Len(line.text) THEN 0 ELSE Stored
    /\ serving /\ fifo = <<>> => fresh

\* At most what the line asks for is still to be executed.
Asked ==
    /\ typed \in Seq(Int) /\ executed \in Seq(Int)
    /\ typed # executed =>
           line.ask # Nothing /\ sofar >= line.at /\ typed = Append(executed, line.ask)
    /\ Done => Stored >= line.at

\* The line is in the buffer until it is executed.
Written == ~Done => \A q \in 0 .. Stored - 1 : UART0_buf[q] = line.text[q + 1]

\* Where characters of keywords are; before is the head of the line before.
Keys(before) ==
    \A p \in Positions :
        Key(UART0_buf[p]) =>
            \/ p < Stored /\ UART0_buf[p] = line.text[p + 1]
            \/ Stored = 0 /\ p < Len(before) /\ UART0_buf[p] = before[p + 1]

\* Those of the line before go when the next one begins.
Old ==
    Stored = 0 =>
        \A p \in Positions :
            Key(UART0_buf[p]) => ~serving /\ (\A q \in 0 .. p - 1 : UART0_buf[q] # NUL)

\* Enter in front asks for the menu.
MenuKey == UART0_buf[0] = CR => line.ask = Menu /\ Stored = 1 /\ ~Done

\* A pass of debug() over all of a line executes what it asks for.
Passes ==
    /\ pc = "loop" /\ ~fresh /\ Stored = Len(line.text) => typed = executed
    /\ pc = "search" /\ ~fresh /\ Stored = Len(line.text) /\ typed # executed =>
           /\ line.ask \in DOMAIN Keywords /\ keyword <= line.ask
           /\ keyword = line.ask => first + Len(Keywords[keyword]) <= line.at

\* What is found is what the line asks for, and goes when it was executed.
Executes ==
    /\ pc = "menu" => UART0_buf[0] = CR
    /\ pc = "execute" => line.ask = keyword /\ Stored >= line.at /\ typed # executed
    /\ pc = "reset" =>
           /\ Done
           /\ \A p \in Positions :
                 Key(UART0_buf[p]) =>
                     p >= first /\ (\A q \in first .. p - 1 : UART0_buf[q] # NUL)
    /\ Done /\ pc # "reset" => NoKeys

\* What has matched so far: the first characters, up to split, those of the line
\* before.
Matched(split, before) ==
    \A i \in 1 .. j - 1 :
        \/ /\ first + i <= split /\ first + i <= Len(before)
           /\ Keywords[keyword][i] = before[first + i]
        \/ /\ split < first + i /\ first + i <= Stored
           /\ Keywords[keyword][i] = line.text[first + i]

Searches(before) ==
    pc = "search" =>
        \E split \in 0 .. first + j - 1 :
            (Stored = 0 => split = first + j - 1) /\ Matched(split, before)

\* The inductive invariant for a user who waits.
UserInv(before) ==
    /\ BoundsInv
    /\ Flow /\ Asked /\ Written
    /\ Keys(before) /\ Old /\ MenuKey
    /\ Passes /\ Executes
    /\ Searches(before)

PatientInv == \E before \in Heads \cup {<<>>} : UserInv(before)

---------------------------------------------------------------------------
(* Keywords and lines *)

\* What the constants are.
LEMMA Constants ==
    /\ BufSize \in Nat /\ BufSize >= 2 /\ MaxFifo \in Nat /\ MaxLines \in Nat
    /\ Positions = 0 .. BufSize - 1
    /\ Len(Keywords) \in Nat /\ Len(Keywords) >= 1
    /\ DOMAIN Keywords = 1 .. Len(Keywords)
    /\ Nothing \notin DOMAIN Keywords /\ Menu \notin DOMAIN Keywords /\ Nothing # Menu
    /\ NUL \notin Characters /\ CR \notin Characters /\ NUL # CR
<1>1. BufSize \in Nat /\ BufSize >= 2 /\ MaxFifo \in Nat /\ MaxLines \in Nat
  BY ConsoleAssumption
<1>2. Keywords \in Seq(Seq(Characters)) /\ Keywords # <<>>
  BY ConsoleAssumption
<1>3. Len(Keywords) \in Nat /\ Len(Keywords) >= 1 /\ DOMAIN Keywords = 1 .. Len(Keywords)
  BY <1>2, EmptySeq, LenProperties
<1>4. NUL \notin Characters /\ CR \notin Characters
  BY ConsoleAssumption
<1>5. NUL # CR
  BY DEF NUL, CR
<1>. QED
  BY <1>1, <1>3, <1>4, <1>5 DEF Positions, Nothing, Menu

\* A keyword is a word of characters that are keys.
LEMMA KeywordShape ==
    ASSUME NEW k \in DOMAIN Keywords
    PROVE  /\ Keywords[k] \in Seq(Characters)
           /\ Len(Keywords[k]) \in Nat /\ Len(Keywords[k]) >= 1
           /\ DOMAIN Keywords[k] = 1 .. Len(Keywords[k])
           /\ \A p \in 1 .. Len(Keywords[k]) : Key(Keywords[k][p])
<1>1. Keywords \in Seq(Seq(Characters)) /\ Keywords[k] # <<>>
  BY ConsoleAssumption
<1>2. Keywords[k] \in Seq(Characters)
  BY <1>1
<1>3. /\ Len(Keywords[k]) \in Nat /\ Len(Keywords[k]) >= 1
      /\ DOMAIN Keywords[k] = 1 .. Len(Keywords[k])
  BY <1>1, <1>2, EmptySeq, LenProperties
<1>. QED
  BY <1>2, <1>3 DEF Key, ToSet

\* NUL and Enter are no characters of a keyword.
LEMMA NoKey == ~Key(NUL) /\ ~Key(CR) /\ \A c : Key(c) => c \in Characters
<1>1. ASSUME NEW c, Key(c) PROVE c \in Characters
  <2>1. PICK k \in DOMAIN Keywords : c \in ToSet(Keywords[k])
    BY <1>1 DEF Key
  <2>. QED
    BY <2>1, KeywordShape DEF ToSet
<1>. QED
  BY <1>1, Constants

\* The characters of a line.
LEMMA TextShape ==
    ASSUME NEW h \in Heads, NEW k \in {Nothing} \cup DOMAIN Keywords, NEW t \in Tails
    PROVE  LET word == Word(h, k)
               text == word \o t \o <<CR>>
           IN  /\ word \in Seq(Characters) /\ text \in Seq(Characters \cup {CR})
               /\ Len(h) \in Nat /\ Len(word) \in Nat /\ Len(text) \in Nat
               /\ Len(word) < Len(text) /\ Len(text) < BufSize
               /\ k # Nothing => Len(word) = Len(h) + Len(Keywords[k])
               /\ k = Nothing => word = h
               /\ \A i \in 1 .. Len(word) : text[i] = word[i]
               /\ \A i \in Len(word) + 1 .. Len(text) : ~Key(text[i])
               /\ \A i \in 1 .. Len(text) - 1 : text[i] \in Characters
               /\ text[Len(text)] = CR
               /\ k # Nothing => \A p \in 1 .. Len(Keywords[k]) :
                                     word[Len(h) + p] = Keywords[k][p]
<1>. DEFINE word == Word(h, k)
            begin == word \o t
            text == begin \o <<CR>>
<1>1. /\ h \in Seq(Characters) /\ t \in Seq(Characters)
      /\ Len(h) \in Nat /\ Len(t) \in Nat
  BY ConsoleAssumption, LenProperties
<1>2. /\ word \in Seq(Characters) /\ Len(word) \in Nat
      /\ k # Nothing => Len(word) = Len(h) + Len(Keywords[k])
      /\ k = Nothing => word = h
      /\ k # Nothing => \A p \in 1 .. Len(Keywords[k]) : word[Len(h) + p] = Keywords[k][p]
  <2>1. CASE k = Nothing
    BY <1>1, <2>1 DEF Word
  <2>2. CASE k # Nothing
    <3>1. /\ Keywords[k] \in Seq(Characters) /\ Len(Keywords[k]) \in Nat
          /\ word = h \o Keywords[k]
      BY <2>2, KeywordShape DEF Word
    <3>2. word \in Seq(Characters) /\ Len(word) = Len(h) + Len(Keywords[k])
      BY <1>1, <3>1, ConcatProperties
    <3>3. \A p \in 1 .. Len(Keywords[k]) : word[Len(h) + p] = Keywords[k][p]
      BY <1>1, <3>1
    <3>. QED
      BY <1>1, <2>2, <3>1, <3>2, <3>3
  <2>. QED
    BY <2>1, <2>2
<1>. HIDE DEF word
<1>3. /\ begin \in Seq(Characters) /\ Len(begin) = Len(word) + Len(t)
      /\ Len(begin) \in Nat
  BY <1>1, <1>2, ConcatProperties
<1>4. /\ \A i \in 1 .. Len(word) : begin[i] = word[i]
      /\ \A i \in Len(word) + 1 .. Len(begin) : begin[i] = t[i - Len(word)]
  BY <1>1, <1>2, <1>3
<1>5. \A i \in 1 .. Len(t) : ~Key(t[i])
  <2>1. \A l \in DOMAIN Keywords : ToSet(t) \cap ToSet(Keywords[l]) = {}
    BY ConsoleAssumption
  <2>2. \A i \in 1 .. Len(t) : t[i] \in ToSet(t)
    BY <1>1 DEF ToSet
  <2>. QED
    BY <2>1, <2>2 DEF Key
<1>6. \A i \in Len(word) + 1 .. Len(begin) : ~Key(begin[i])
  <2>. SUFFICES ASSUME NEW i \in Len(word) + 1 .. Len(begin) PROVE ~Key(begin[i])
    OBVIOUS
  <2>1. i - Len(word) \in 1 .. Len(t)
    BY <1>1, <1>2, <1>3
  <2>. QED
    BY <1>4, <1>5, <2>1
<1>. HIDE DEF begin
<1>7. Len(<<CR>>) = 1 /\ <<CR>> \in Seq(Characters \cup {CR}) /\ <<CR>>[1] = CR
  OBVIOUS
<1>8. /\ text \in Seq(Characters \cup {CR}) /\ Len(text) = Len(begin) + 1
      /\ \A i \in 1 .. Len(begin) : text[i] = begin[i]
      /\ text[Len(begin) + 1] = CR
  <2>1. begin \in Seq(Characters \cup {CR})
    BY <1>3
  <2>2. /\ text \in Seq(Characters \cup {CR}) /\ Len(text) = Len(begin) + Len(<<CR>>)
        /\ \A i \in 1 .. Len(begin) + Len(<<CR>>) :
               text[i] = IF i <= Len(begin) THEN begin[i] ELSE <<CR>>[i - Len(begin)]
    BY <1>7, <2>1, ConcatProperties
  <2>. HIDE DEF text
  <2>3. Len(begin) + 1 \in 1 .. Len(begin) + 1 /\ Len(begin) + 1 - Len(begin) = 1
    BY <1>3
  <2>. QED
    BY <1>3, <1>7, <2>2, <2>3
<1>9. Len(word) + Len(t) + 1 < BufSize
  <2>1. PICK l \in DOMAIN Keywords : k # Nothing => l = k
    BY Constants
  <2>2. Len(h) + Len(Keywords[l]) + Len(t) + 1 < BufSize
    BY ConsoleAssumption
  <2>3. Len(Keywords[l]) \in Nat
    BY KeywordShape
  <2>. QED
    BY <1>1, <1>2, <2>1, <2>2, <2>3, Constants
<1>10. \A i \in 1 .. Len(begin) : begin[i] \in Characters
  BY <1>3
<1>. HIDE DEF text
<1>11. Len(text) \in Nat /\ Len(word) < Len(text) /\ Len(text) < BufSize
  BY <1>1, <1>2, <1>3, <1>8, <1>9, Constants
<1>12. \A i \in 1 .. Len(word) : text[i] = word[i]
  BY <1>1, <1>2, <1>3, <1>4, <1>8
<1>13. \A i \in Len(word) + 1 .. Len(text) : ~Key(text[i])
  <2>. SUFFICES ASSUME NEW i \in Len(word) + 1 .. Len(text) PROVE ~Key(text[i])
    OBVIOUS
  <2>1. CASE i = Len(begin) + 1
    BY <1>8, <2>1, NoKey
  <2>2. CASE i # Len(begin) + 1
    <3>1. i \in Len(word) + 1 .. Len(begin) /\ i \in 1 .. Len(begin)
      <4>1. Len(word) \in Nat /\ Len(begin) \in Nat /\ Len(text) = Len(begin) + 1
        BY <1>2, <1>3, <1>8
      <4>. QED
        BY <2>2, <4>1
    <3>. QED
      BY <1>6, <1>8, <3>1
  <2>. QED
    BY <2>1, <2>2
<1>14. \A i \in 1 .. Len(text) - 1 : text[i] \in Characters
  BY <1>1, <1>2, <1>3, <1>8, <1>10
<1>15. text[Len(text)] = CR
  BY <1>8
<1>. QED
  BY <1>1, <1>2, <1>8, <1>11, <1>12, <1>13, <1>14, <1>15 DEF word, begin, text

\* A line is a head, a keyword or nothing, and a tail.
LEMMA LineOf ==
    ASSUME NEW l \in Lines
    PROVE  \E h \in Heads, c \in {Nothing} \cup DOMAIN Keywords, t \in Tails :
               l = Line(h, c, t)
BY DEF Lines

\* Enter ends a line and is nowhere else in it, what it asks for is complete before,
\* and behind that nothing is of a keyword.
LEMMA LineShape ==
    ASSUME NEW l \in Lines
    PROVE  /\ l.text \in Seq(Characters \cup {CR})
           /\ Len(l.text) \in Nat /\ Len(l.text) >= 1 /\ Len(l.text) < BufSize
           /\ \A i \in 1 .. Len(l.text) : /\ l.text[i] = CR <=> i = Len(l.text)
                                          /\ l.text[i] # NUL
           /\ l.ask \in {Nothing, Menu} \cup DOMAIN Keywords
           /\ l.at \in Nat /\ l.at <= Len(l.text)
           /\ l.text[1] = CR => l.ask = Menu
           /\ l.ask = Menu => Len(l.text) = 1 /\ l.at = 1
           /\ l.ask # Nothing =>
                 l.at >= 1 /\ \A i \in 1 .. Len(l.text) : i > l.at => ~Key(l.text[i])
           /\ l.ask \in DOMAIN Keywords =>
                 /\ Len(Keywords[l.ask]) <= l.at /\ l.at < Len(l.text)
                 /\ \A p \in 1 .. Len(Keywords[l.ask]) :
                       l.text[l.at - Len(Keywords[l.ask]) + p] = Keywords[l.ask][p]
           /\ l.ask = Nothing =>
                 \E h \in Heads : \A i \in 1 .. Len(l.text) :
                     Key(l.text[i]) => i <= Len(h) /\ l.text[i] = h[i]
<1>0. PICK h \in Heads, k \in {Nothing} \cup DOMAIN Keywords, t \in Tails : l = Line(h, k, t)
  BY LineOf
<1>. DEFINE word == Word(h, k)
            text == word \o t \o <<CR>>
<1>1. /\ l.text = text
      /\ l.ask = IF text = <<CR>> THEN Menu ELSE k
      /\ l.at = IF text = <<CR>> THEN 1 ELSE Len(word)
  BY <1>0 DEF Line
<1>2. /\ text \in Seq(Characters \cup {CR})
      /\ Len(h) \in Nat /\ Len(word) \in Nat /\ Len(text) \in Nat
      /\ Len(word) < Len(text) /\ Len(text) < BufSize
      /\ k # Nothing => Len(word) = Len(h) + Len(Keywords[k])
      /\ k = Nothing => word = h
      /\ \A i \in 1 .. Len(word) : text[i] = word[i]
      /\ \A i \in Len(word) + 1 .. Len(text) : ~Key(text[i])
      /\ \A i \in 1 .. Len(text) - 1 : text[i] \in Characters
      /\ text[Len(text)] = CR
      /\ k # Nothing => \A p \in 1 .. Len(Keywords[k]) : word[Len(h) + p] = Keywords[k][p]
  BY TextShape
<1>. HIDE DEF word, text
<1>3. Len(text) >= 1 /\ Len(word) <= Len(text)
  BY <1>2
<1>4. \A i \in 1 .. Len(text) : (text[i] = CR <=> i = Len(text)) /\ text[i] # NUL
  <2>. SUFFICES ASSUME NEW i \in 1 .. Len(text)
                PROVE  (text[i] = CR <=> i = Len(text)) /\ text[i] # NUL
    OBVIOUS
  <2>1. CASE i = Len(text)
    BY <1>2, <2>1, Constants
  <2>2. CASE i # Len(text)
    <3>1. i \in 1 .. Len(text) - 1
      BY <1>2, <2>2
    <3>. QED
      BY <1>2, <2>2, <3>1, Constants
  <2>. QED
    BY <2>1, <2>2
<1>5. text = <<CR>> <=> Len(text) = 1
  <2>1. CASE text = <<CR>>
    BY <2>1
  <2>2. CASE Len(text) = 1
    <3>1. text[1] = CR
      BY <1>2, <2>2
    <3>. QED
      BY <1>2, <2>2, <3>1
  <2>. QED
    BY <2>1, <2>2
<1>6. text[1] = CR => Len(text) = 1
  <2>1. 1 \in 1 .. Len(text)
    BY <1>2, <1>3
  <2>. QED
    BY <1>4, <2>1
<1>. DEFINE Asks ==
         /\ l.ask \in {Nothing, Menu} \cup DOMAIN Keywords
         /\ l.at \in Nat /\ l.at <= Len(text)
         /\ text[1] = CR => l.ask = Menu
         /\ l.ask = Menu => Len(text) = 1 /\ l.at = 1
         /\ l.ask # Nothing =>
               l.at >= 1 /\ \A i \in 1 .. Len(text) : i > l.at => ~Key(text[i])
         /\ l.ask \in DOMAIN Keywords =>
               /\ Len(Keywords[l.ask]) <= l.at /\ l.at < Len(text)
               /\ \A p \in 1 .. Len(Keywords[l.ask]) :
                     text[l.at - Len(Keywords[l.ask]) + p] = Keywords[l.ask][p]
         /\ l.ask = Nothing =>
               \E g \in Heads : \A i \in 1 .. Len(text) :
                   Key(text[i]) => i <= Len(g) /\ text[i] = g[i]
<1>. SUFFICES Asks
  BY <1>1, <1>2, <1>3, <1>4
<1>7. CASE text = <<CR>>
  <2>1. Len(text) = 1 /\ l.ask = Menu /\ l.at = 1
    BY <1>1, <1>5, <1>7
  <2>2. Menu # Nothing /\ Menu \notin DOMAIN Keywords
    BY Constants
  <2>3. \A i \in 1 .. Len(text) : ~(i > 1)
    BY <2>1
  <2>. QED
    BY <2>1, <2>2, <2>3
<1>8. CASE text # <<CR>> /\ k = Nothing
  <2>1. l.ask = Nothing /\ l.at = Len(word) /\ word = h /\ text[1] # CR
    BY <1>1, <1>2, <1>5, <1>6, <1>8
  <2>2. \A i \in 1 .. Len(text) : Key(text[i]) => i <= Len(h) /\ text[i] = h[i]
    <3>. SUFFICES ASSUME NEW i \in 1 .. Len(text), Key(text[i])
                  PROVE  i <= Len(h) /\ text[i] = h[i]
      OBVIOUS
    <3>1. i <= Len(h)
      BY <1>2, <2>1
    <3>. QED
      BY <1>2, <2>1, <3>1
  <2>3. Nothing # Menu /\ Nothing \notin DOMAIN Keywords
    BY Constants
  <2>4. \E g \in Heads : \A i \in 1 .. Len(text) : Key(text[i]) => i <= Len(g) /\ text[i] = g[i]
    BY <2>2
  <2>5. l.at \in Nat /\ l.at <= Len(text)
    BY <1>2, <2>1
  <2>. QED
    BY <2>1, <2>3, <2>4, <2>5
<1>9. CASE text # <<CR>> /\ k # Nothing
  <2>1. /\ l.ask = k /\ k \in DOMAIN Keywords /\ l.at = Len(word)
        /\ Len(word) = Len(h) + Len(Keywords[k])
        /\ Len(Keywords[k]) \in Nat /\ Len(Keywords[k]) >= 1
    BY <1>1, <1>2, <1>9, KeywordShape
  <2>2. \A p \in 1 .. Len(Keywords[k]) : text[Len(word) - Len(Keywords[k]) + p] = Keywords[k][p]
    <3>. SUFFICES ASSUME NEW p \in 1 .. Len(Keywords[k])
                  PROVE  text[Len(word) - Len(Keywords[k]) + p] = Keywords[k][p]
      OBVIOUS
    <3>1. Len(word) - Len(Keywords[k]) + p = Len(h) + p /\ Len(h) + p \in 1 .. Len(word)
      BY <1>2, <2>1
    <3>. QED
      BY <1>2, <1>9, <3>1
  <2>3. Len(word) >= 1 /\ Len(Keywords[k]) <= Len(word)
    BY <1>2, <2>1
  <2>4. \A i \in 1 .. Len(text) : i > Len(word) => ~Key(text[i])
    BY <1>2
  <2>5. text[1] # CR
    BY <1>5, <1>6, <1>9
  <2>6. k # Nothing /\ k # Menu
    BY <2>1, Constants
  <2>. QED
    BY <1>2, <2>1, <2>2, <2>3, <2>4, <2>5, <2>6
<1>. QED
  BY <1>7, <1>8, <1>9

\* The head of a line before has no keyword.
LEMMA NotInHead ==
    ASSUME NEW before \in Heads \cup {<<>>}, NEW k \in DOMAIN Keywords,
           NEW n \in 0 .. BufSize,
           \A p \in 1 .. Len(Keywords[k]) :
               n + p <= Len(before) /\ Keywords[k][p] = before[n + p]
    PROVE  FALSE
<1>1. /\ DOMAIN Keywords[k] = 1 .. Len(Keywords[k])
      /\ Len(Keywords[k]) \in Nat /\ 1 \in 1 .. Len(Keywords[k])
  BY KeywordShape
<1>2. CASE before = <<>>
  BY <1>1, <1>2
<1>3. CASE before \in Heads
  <2>1. Len(before) \in Nat /\ DOMAIN before = 1 .. Len(before)
    BY <1>3, ConsoleAssumption, LenProperties
  <2>2. Word(before, Nothing) = before
    BY DEF Word
  <2>3. FoundAt(n, Keywords[k], 0, <<>>, before)
    BY <1>1, <2>1 DEF FoundAt
  <2>4. k = Nothing
    <3>1. \A q \in Heads \cup {<<>>}, g \in Heads, m \in {Nothing} \cup DOMAIN Keywords,
             o \in DOMAIN Keywords, i, d \in 0 .. BufSize :
              FoundAt(i, Keywords[o], d, q, Word(g, m)) => o = m /\ i = Len(g)
      BY ConsoleAssumption
    <3>2. 0 \in 0 .. BufSize
      BY Constants
    <3>. QED
      BY <1>3, <2>2, <2>3, <3>1, <3>2
  <2>. QED
    BY <2>4, Constants
<1>. QED
  BY <1>2, <1>3

\* A keyword is at place n of what a search reads that has read of the line before
\* up to split.
Mixed(k, n, split, before, text) ==
    \A p \in 1 .. Len(Keywords[k]) :
        \/ n + p <= split /\ n + p <= Len(before) /\ Keywords[k][p] = before[n + p]
        \/ split < n + p /\ n + p <= Len(text) /\ Keywords[k][p] = text[n + p]

\* A keyword that is found is what the line asks for, and found at its place.
LEMMA FoundIsAsked ==
    ASSUME NEW l \in Lines, NEW before \in Heads \cup {<<>>}, NEW k \in DOMAIN Keywords,
           NEW n \in 0 .. BufSize, NEW split \in 0 .. BufSize,
           Mixed(k, n, split, before, l.text)
    PROVE  l.ask = k /\ l.at = n + Len(Keywords[k])
<1>. USE DEF Mixed
<1>0. PICK h \in Heads, c \in {Nothing} \cup DOMAIN Keywords, t \in Tails : l = Line(h, c, t)
  BY LineOf
<1>. DEFINE word == Word(h, c)
            text == word \o t \o <<CR>>
<1>1. /\ l.text = text
      /\ l.ask = IF text = <<CR>> THEN Menu ELSE c
      /\ l.at = IF text = <<CR>> THEN 1 ELSE Len(word)
  BY <1>0 DEF Line
<1>2. /\ word \in Seq(Characters)
      /\ Len(h) \in Nat /\ Len(word) \in Nat /\ Len(text) \in Nat
      /\ Len(word) < Len(text)
      /\ c # Nothing => Len(word) = Len(h) + Len(Keywords[c])
      /\ \A i \in 1 .. Len(word) : text[i] = word[i]
      /\ \A i \in Len(word) + 1 .. Len(text) : ~Key(text[i])
  BY TextShape
<1>. HIDE DEF word, text
<1>3. /\ DOMAIN Keywords[k] = 1 .. Len(Keywords[k])
      /\ Len(Keywords[k]) \in Nat /\ Len(Keywords[k]) >= 1
      /\ \A p \in 1 .. Len(Keywords[k]) : Key(Keywords[k][p])
  BY KeywordShape
<1>4. before \in Seq(Characters) /\ DOMAIN before = 1 .. Len(before) /\ Len(before) \in Nat
  <2>1. before \in Seq(Characters)
    <3>1. Heads \subseteq Seq(Characters) /\ <<>> \in Seq(Characters)
      BY ConsoleAssumption
    <3>. QED
      BY <3>1
  <2>. QED
    BY <2>1, LenProperties
<1>5. DOMAIN word = 1 .. Len(word)
  BY <1>2, LenProperties
<1>6. FoundAt(n, Keywords[k], split, before, word)
  <2>. SUFFICES ASSUME NEW p \in 1 .. Len(Keywords[k])
                PROVE  IF n + p <= split
                       THEN n + p \in 1 .. Len(before) /\ before[n + p] = Keywords[k][p]
                       ELSE n + p \in 1 .. Len(word) /\ word[n + p] = Keywords[k][p]
    BY <1>3, <1>4, <1>5 DEF FoundAt
  <2>0. n \in Nat /\ split \in Nat /\ p \in Nat /\ p >= 1
    BY Constants
  <2>1. CASE n + p <= split
    BY <1>4, <2>0, <2>1
  <2>2. CASE ~(n + p <= split)
    <3>1. n + p \in 1 .. Len(text) /\ Keywords[k][p] = text[n + p]
      <4>1. n + p <= Len(text) /\ Keywords[k][p] = text[n + p]
        BY <1>1, <2>2
      <4>. QED
        BY <1>2, <2>0, <4>1
    <3>2. n + p \in 1 .. Len(word)
      <4>1. Key(text[n + p])
        BY <1>3, <3>1
      <4>2. ~(n + p \in Len(word) + 1 .. Len(text))
        BY <1>2, <4>1
      <4>3. Len(word) \in Nat /\ Len(text) \in Nat
        BY <1>2
      <4>. QED
        BY <2>0, <3>1, <4>2, <4>3
    <3>. QED
      BY <1>2, <2>2, <3>1, <3>2
  <2>. QED
    BY <2>1, <2>2
<1>7. k = c /\ n = Len(h)
  <2>. \A q \in Heads \cup {<<>>}, g \in Heads, m \in {Nothing} \cup DOMAIN Keywords,
          o \in DOMAIN Keywords, i, d \in 0 .. BufSize :
           FoundAt(i, Keywords[o], d, q, Word(g, m)) => o = m /\ i = Len(g)
    BY ConsoleAssumption
  <2>. QED
    BY <1>6 DEF word
<1>8. c # Nothing /\ Len(word) = n + Len(Keywords[k])
  BY <1>2, <1>7, Constants
<1>9. text # <<CR>>
  <2>1. Len(word) >= 1
    BY <1>3, <1>8, Constants
  <2>2. Len(text) # 1
    BY <1>2, <2>1
  <2>. QED
    BY <2>2
<1>. QED
  BY <1>1, <1>7, <1>8, <1>9

---------------------------------------------------------------------------
(* Any user *)

\* Any line fits into the buffer.
LEMMA LineBounds ==
    ASSUME NEW l \in Lines \cup {NoLine}
    PROVE  /\ l.text \in Seq(Characters \cup {CR})
           /\ Len(l.text) \in Nat /\ Len(l.text) < BufSize
           /\ \A i \in 1 .. Len(l.text) : l.text[i] = CR <=> i = Len(l.text)
<1>1. CASE l \in Lines
  BY <1>1, LineShape
<1>2. CASE l = NoLine
  BY <1>2, Constants DEF NoLine
<1>. QED
  BY <1>1, <1>2

\* The numbers of TypeOK.
LEMMA Numbers ==
    ASSUME TypeOK
    PROVE  /\ bufCount_0 \in Nat /\ bufCount_0 <= BufSize - 2
           /\ fifo \in Seq(Characters \cup {CR})
           /\ Len(fifo) \in Nat /\ DOMAIN fifo = 1 .. Len(fifo)
           /\ first \in Nat /\ first <= BufSize - 1
           /\ j \in 1 .. Len(Keywords[keyword]) /\ first + j - 1 \in 0 .. BufSize - 1
           /\ keyword \in DOMAIN Keywords
           /\ line \in Lines \cup {NoLine} /\ Len(line.text) \in Nat
           /\ sofar \in Nat /\ sofar <= Len(line.text)
<1>1. /\ fifo \in Seq(Characters \cup {CR}) /\ keyword \in DOMAIN Keywords
      /\ line \in Lines \cup {NoLine} /\ j \in DOMAIN Keywords[keyword]
      /\ bufCount_0 \in 0 .. BufSize - 2
      /\ first \in Positions /\ first + j - 1 \in Positions
      /\ sofar \in 0 .. Len(line.text)
  BY DEF TypeOK
<1>2. Len(fifo) \in Nat /\ DOMAIN fifo = 1 .. Len(fifo)
  BY <1>1, LenProperties
<1>3. DOMAIN Keywords[keyword] = 1 .. Len(Keywords[keyword])
  BY <1>1, KeywordShape
<1>4. Len(line.text) \in Nat
  BY <1>1, LineBounds
<1>. QED
  BY <1>1, <1>2, <1>3, <1>4, Constants

\* At the start the buffer holds NUL alone.
LEMMA InitBounds == Init => BoundsInv
<1>. SUFFICES ASSUME Init PROVE BoundsInv
  OBVIOUS
<1>1. /\ fifo = <<>> /\ Len(fifo) = 0 /\ fifo \in Seq(Characters \cup {CR})
      /\ bufCount_0 = 0 /\ line = NoLine /\ sofar = 0 /\ line.text = <<>>
      /\ keyword = 1 /\ first = 0 /\ j = 1 /\ lines = 0
  BY DEF Init, NoLine
<1>2. 1 \in DOMAIN Keywords /\ 1 \in DOMAIN Keywords[1]
  <2>1. 1 \in DOMAIN Keywords
    BY Constants
  <2>. QED
    BY <2>1, KeywordShape
<1>3. TypeOK
  <2>1. UART0_buf \in [Positions -> Characters \cup {NUL, CR}]
    BY DEF Init
  <2>2. 0 \in 0 .. BufSize - 2 /\ 0 <= MaxFifo /\ 0 \in Positions /\ 0 \in 0 .. MaxLines
        /\ 0 + 1 - 1 \in Positions
    BY Constants
  <2>3. serving \in BOOLEAN /\ fresh \in BOOLEAN /\ pc = "loop"
    BY DEF Init
  <2>4. sofar \in 0 .. Len(line.text)
    BY <1>1
  <2>. QED
    BY <1>1, <1>2, <2>1, <2>2, <2>3, <2>4 DEF TypeOK
<1>4. RunsFit
  BY <1>1, Constants DEF RunsFit, Begun
<1>5. LastIsNul
  BY Constants DEF Init, LastIsNul
<1>. QED
  BY <1>1, <1>3, <1>4, <1>5 DEF BoundsInv, AtFirst

\* Where nothing moves in the FIFO, what waits there still fits.
LEMMA RunsKept ==
    ASSUME RunsFit, UNCHANGED <<fifo, bufCount_0, line, sofar>>
    PROVE  RunsFit'
BY DEF RunsFit, Unbroken, Begun

\* Reset writes NUL, and nothing else.
LEMMA ClearedShape ==
    ASSUME NEW buf \in [Positions -> Characters \cup {NUL, CR}]
    PROVE  /\ Cleared(buf) \in [Positions -> Characters \cup {NUL, CR}]
           /\ \A p \in Positions : Cleared(buf)[p] \in {NUL, buf[p]}
           /\ \A p \in Positions :
                 (\A q \in 0 .. p : buf[q] # NUL) => Cleared(buf)[p] = NUL
BY DEF Cleared

\* The interrupt begins.
LEMMA HandlerBounds == ASSUME BoundsInv, UART0_IntHandler PROVE BoundsInv'
<1>1. /\ TypeOK /\ RunsFit /\ LastIsNul /\ AtFirst
      /\ UNCHANGED <<bufCount_0, fifo, pc, keyword, first, j, fresh, line, sofar, lines>>
  BY DEF BoundsInv, UART0_IntHandler, mainVars, userVars
<1>2. UART0_buf \in [Positions -> Characters \cup {NUL, CR}]
  BY <1>1 DEF TypeOK
<1>3. /\ UART0_buf' \in [Positions -> Characters \cup {NUL, CR}]
      /\ \A p \in Positions : UART0_buf'[p] \in {NUL, UART0_buf[p]}
  BY <1>2, ClearedShape DEF UART0_IntHandler
<1>4. serving' \in BOOLEAN
  BY DEF UART0_IntHandler
<1>5. TypeOK'
  BY <1>1, <1>3, <1>4 DEF TypeOK
<1>6. LastIsNul'
  BY <1>1, <1>3, Constants DEF LastIsNul
<1>. QED
  BY <1>1, <1>5, <1>6, RunsKept DEF BoundsInv, AtFirst

\* Of a FIFO of which the first character is taken, the characters i on.
LEMMA TailShape ==
    ASSUME TypeOK, fifo # <<>>, fifo' = Tail(fifo)
    PROVE  /\ fifo' \in Seq(Characters \cup {CR}) /\ Head(fifo) = fifo[1]
           /\ Len(fifo) >= 1 /\ Len(fifo') = Len(fifo) - 1
           /\ fifo[1] \in Characters \cup {CR}
           /\ \A i \in 1 .. Len(fifo) - 1 : fifo'[i] = fifo[i + 1]
           /\ \A a \in Nat \ {0}, b \in 0 .. Len(fifo) - 1 :
                 Unbroken(a, b)' <=> Unbroken(a + 1, b + 1)
<1>1. fifo \in Seq(Characters \cup {CR}) /\ Len(fifo) \in Nat
  BY Numbers
<1>2. /\ fifo' \in Seq(Characters \cup {CR}) /\ Head(fifo) = fifo[1]
      /\ Len(fifo) >= 1 /\ Len(fifo') = Len(fifo) - 1
      /\ fifo[1] \in Characters \cup {CR}
  BY <1>1, HeadTailProperties, EmptySeq
<1>3. \A i \in 1 .. Len(fifo) - 1 : fifo'[i] = fifo[i + 1]
  BY <1>1, <1>2
<1>4. ASSUME NEW a \in Nat \ {0}, NEW b \in 0 .. Len(fifo) - 1
      PROVE  Unbroken(a, b)' <=> Unbroken(a + 1, b + 1)
  <2>1. ASSUME Unbroken(a, b)', NEW i \in a + 1 .. b + 1 PROVE fifo[i] # CR
    <3>1. i - 1 \in a .. b /\ i - 1 \in 1 .. Len(fifo) - 1 /\ (i - 1) + 1 = i
      BY <1>1
    <3>. QED
      BY <1>3, <2>1, <3>1 DEF Unbroken
  <2>2. ASSUME Unbroken(a + 1, b + 1), NEW i \in a .. b PROVE fifo'[i] # CR
    <3>1. i + 1 \in a + 1 .. b + 1 /\ i \in 1 .. Len(fifo) - 1
      BY <1>1
    <3>. QED
      BY <1>3, <2>2, <3>1 DEF Unbroken
  <2>. QED
    BY <2>1, <2>2 DEF Unbroken
<1>. QED
  BY <1>2, <1>3, <1>4

\* The interrupt stores a character, which Enter bounds, or ends.
LEMMA GetBounds == ASSUME BoundsInv, UARTGetBuffer PROVE BoundsInv'
<1>1. /\ TypeOK /\ RunsFit /\ LastIsNul /\ AtFirst /\ serving
      /\ UNCHANGED <<pc, keyword, first, j, line, sofar, lines>>
  BY DEF BoundsInv, UARTGetBuffer, mainVars, userVars
<1>2. CASE fifo = <<>> /\ UNCHANGED <<UART0_buf, bufCount_0, fifo, fresh>> /\ serving' = FALSE
  <2>1. TypeOK'
    BY <1>1, <1>2 DEF TypeOK
  <2>. QED
    BY <1>1, <1>2, <2>1, RunsKept DEF BoundsInv, LastIsNul, AtFirst
<1>3. CASE /\ fifo # <<>> /\ Store(Head(fifo)) /\ fifo' = Tail(fifo)
           /\ fresh' = TRUE /\ UNCHANGED serving
  <2>1. /\ fifo' \in Seq(Characters \cup {CR}) /\ Head(fifo) = fifo[1]
        /\ Len(fifo) >= 1 /\ Len(fifo') = Len(fifo) - 1
        /\ fifo[1] \in Characters \cup {CR}
        /\ \A a \in Nat \ {0}, b \in 0 .. Len(fifo) - 1 :
              Unbroken(a, b)' <=> Unbroken(a + 1, b + 1)
    BY <1>1, <1>3, TailShape
  <2>2. /\ UART0_buf' = [UART0_buf EXCEPT ![bufCount_0] = fifo[1]]
        /\ bufCount_0' = IF fifo[1] = CR THEN 0 ELSE bufCount_0 + 1
    BY <1>3, <2>1 DEF Store
  <2>3. /\ bufCount_0 \in Nat /\ bufCount_0 <= BufSize - 2 /\ Len(fifo) \in Nat
        /\ BufSize \in Nat /\ BufSize >= 2
    BY <1>1, Numbers, Constants
  <2>4. fifo[1] # CR => bufCount_0 + 1 <= BufSize - 2
    <3>1. fifo[1] # CR => Unbroken(1, 1)
      BY DEF Unbroken
    <3>2. 1 \in 0 .. Len(fifo)
      BY <2>1, <2>3
    <3>. QED
      BY <1>1, <3>1, <3>2 DEF RunsFit
  <2>5. bufCount_0' \in 0 .. BufSize - 2
    BY <2>2, <2>3, <2>4
  <2>6. /\ UART0_buf' \in [Positions -> Characters \cup {NUL, CR}]
        /\ UART0_buf'[BufSize - 1] = UART0_buf[BufSize - 1]
    <3>1. bufCount_0 # BufSize - 1 /\ BufSize - 1 \in Positions
      BY <2>3, Constants
    <3>2. UART0_buf \in [Positions -> Characters \cup {NUL, CR}]
      BY <1>1 DEF TypeOK
    <3>. QED
      BY <2>1, <2>2, <3>1, <3>2
  <2>7. Len(fifo') <= MaxFifo
    BY <1>1, <2>1, <2>3, Constants DEF TypeOK
  <2>8. fresh' \in BOOLEAN /\ serving' \in BOOLEAN
    BY <1>1, <1>3 DEF TypeOK
  <2>9. TypeOK'
    BY <1>1, <2>1, <2>5, <2>6, <2>7, <2>8 DEF TypeOK
  <2>10. LastIsNul'
    BY <1>1, <2>6 DEF LastIsNul
  <2>11. ASSUME NEW b \in 0 .. Len(fifo'), Unbroken(1, b)'
         PROVE  /\ fifo[1] = CR => b = 0 \/ b <= BufSize - 2
                /\ fifo[1] # CR => bufCount_0 + (b + 1) <= BufSize - 2
    <3>1. Unbroken(2, b + 1)
      BY <2>1, <2>11
    <3>2. fifo[1] # CR => Unbroken(1, b + 1)
      BY <3>1 DEF Unbroken
    <3>3. b + 1 \in 0 .. Len(fifo) /\ (b # 0 => 2 \in 1 .. Len(fifo) /\ b + 1 \in 1 .. Len(fifo))
      BY <2>1, <2>3
    <3>4. b # 0 => (b + 1) - 2 + 1 <= BufSize - 2
      BY <1>1, <3>1, <3>3 DEF RunsFit
    <3>5. (b + 1) - 2 + 1 = b
      BY <2>1, <2>3
    <3>. QED
      BY <1>1, <3>2, <3>3, <3>4, <3>5 DEF RunsFit
  <2>12. \A b \in 0 .. Len(fifo') : Unbroken(1, b)' => bufCount_0' + b <= BufSize - 2
    BY <2>1, <2>2, <2>3, <2>11
  <2>13. \A a \in 1 .. Len(fifo'), b \in 1 .. Len(fifo') :
             Unbroken(a, b)' => b - a + 1 <= BufSize - 2
    <3>. SUFFICES ASSUME NEW a \in 1 .. Len(fifo'), NEW b \in 1 .. Len(fifo'), Unbroken(a, b)'
                  PROVE  b - a + 1 <= BufSize - 2
      OBVIOUS
    <3>1. /\ a \in Nat \ {0} /\ b \in 0 .. Len(fifo) - 1
          /\ a + 1 \in 1 .. Len(fifo) /\ b + 1 \in 1 .. Len(fifo)
      BY <2>1, <2>3
    <3>2. Unbroken(a + 1, b + 1)
      BY <2>1, <3>1
    <3>3. (b + 1) - (a + 1) + 1 <= BufSize - 2
      BY <1>1, <3>1, <3>2 DEF RunsFit
    <3>. QED
      BY <3>1, <3>3, <2>3
  <2>14. Begun' = Begun
    BY <1>1 DEF Begun
  <2>15. \A a \in 1 .. Len(fifo') + 1 : Unbroken(a, Len(fifo))' => Len(fifo') - a + 1 <= Begun
    <3>. SUFFICES ASSUME NEW a \in 1 .. Len(fifo') + 1, Unbroken(a, Len(fifo))'
                  PROVE  Len(fifo') - a + 1 <= Begun
      OBVIOUS
    <3>1. /\ a \in Nat \ {0} /\ Len(fifo') \in 0 .. Len(fifo) - 1
          /\ a + 1 \in 1 .. Len(fifo) + 1 /\ Len(fifo') + 1 = Len(fifo)
      BY <2>1, <2>3
    <3>2. \A b \in 0 .. Len(fifo) - 1 : Unbroken(a, b)' <=> Unbroken(a + 1, b + 1)
      BY <2>1, <3>1
    <3>3. Unbroken(a + 1, Len(fifo))
      BY <3>1, <3>2 DEF Unbroken
    <3>4. Len(fifo) - (a + 1) + 1 <= Begun
      BY <1>1, <3>1, <3>3 DEF RunsFit
    <3>5. Len(fifo') - a + 1 = Len(fifo) - (a + 1) + 1
      BY <2>1, <2>3
    <3>. QED
      BY <3>4, <3>5
  <2>16. Unbroken(1, Len(fifo))' => bufCount_0' + Len(fifo') <= Begun
    <3>. SUFFICES ASSUME Unbroken(1, Len(fifo))' PROVE bufCount_0' + Len(fifo') <= Begun
      OBVIOUS
    <3>1. CASE fifo[1] = CR
      <4>1. 1 \in 1 .. Len(fifo') + 1 /\ Len(fifo') - 1 + 1 = Len(fifo')
        BY <2>1, <2>3
      <4>2. Len(fifo') - 1 + 1 <= Begun
        BY <2>15, <4>1
      <4>. QED
        BY <2>1, <2>2, <2>3, <3>1, <4>1, <4>2
    <3>2. CASE fifo[1] # CR
      <4>1. \A b \in 0 .. Len(fifo) - 1 : Unbroken(1, b)' <=> Unbroken(2, b + 1)
        BY <2>1
      <4>2. Len(fifo') \in 0 .. Len(fifo) - 1 /\ Len(fifo') + 1 = Len(fifo)
        BY <2>1, <2>3
      <4>3. Unbroken(2, Len(fifo))
        BY <4>1, <4>2 DEF Unbroken
      <4>4. Unbroken(1, Len(fifo))
        BY <3>2, <4>3, <2>3 DEF Unbroken
      <4>5. bufCount_0 + Len(fifo) <= Begun
        BY <1>1, <4>4 DEF RunsFit
      <4>6. bufCount_0' + Len(fifo') = bufCount_0 + Len(fifo)
        BY <2>1, <2>2, <2>3, <3>2
      <4>. QED
        BY <4>5, <4>6
    <3>. QED
      BY <3>1, <3>2
  <2>17. RunsFit'
    BY <2>12, <2>13, <2>14, <2>15, <2>16 DEF RunsFit
  <2>. QED
    BY <1>1, <2>9, <2>10, <2>17 DEF BoundsInv, AtFirst
<1>. QED
  BY <1>2, <1>3 DEF UARTGetBuffer

\* debug() reads and writes in the buffer.
LEMMA DebugBounds == ASSUME BoundsInv, debug PROVE BoundsInv'
<1>0. /\ TypeOK /\ RunsFit /\ LastIsNul /\ AtFirst
      /\ BufSize \in Nat /\ BufSize >= 2 /\ Positions = 0 .. BufSize - 1
  BY Constants DEF BoundsInv
<1>n. /\ first \in Nat /\ keyword \in DOMAIN Keywords
      /\ DOMAIN Keywords[keyword] = 1 .. Len(Keywords[keyword])
      /\ Len(Keywords[keyword]) \in Nat
      /\ j \in 1 .. Len(Keywords[keyword]) /\ first + j - 1 \in 0 .. BufSize - 1
      /\ first <= BufSize - 1
      /\ UART0_buf \in [Positions -> Characters \cup {NUL, CR}]
  BY <1>0, Numbers, KeywordShape DEF TypeOK
<1>1. ASSUME NEW k \in DOMAIN Keywords
      PROVE  1 \in DOMAIN Keywords[k] /\ 0 \in Positions /\ 0 + 1 - 1 \in Positions
  BY <1>0, KeywordShape
<1>2. ASSUME NextKeyword
      PROVE  /\ pc' \in {"search", "loop"} /\ keyword' \in DOMAIN Keywords
             /\ j' \in DOMAIN Keywords[keyword'] /\ first' \in Positions
             /\ first' + j' - 1 \in Positions
  <2>1. CASE keyword < Len(Keywords)
    <3>1. keyword + 1 \in DOMAIN Keywords
      BY <1>n, <2>1, Constants
    <3>. QED
      BY <1>1, <1>2, <2>1, <3>1 DEF NextKeyword
  <2>2. CASE ~(keyword < Len(Keywords))
    BY <1>0, <1>2, <2>2 DEF NextKeyword, TypeOK
  <2>. QED
    BY <2>1, <2>2
<1>3. /\ UNCHANGED <<bufCount_0, fifo, serving, line, sofar, lines>>
      /\ RunsFit'
  <2>1. UNCHANGED <<bufCount_0, fifo, serving, line, sofar, lines>>
    BY DEF debug, Enter, ShowMenu, SearchIndexOf, Execute, Reset, userVars
  <2>. QED
    BY <1>0, <2>1, RunsKept
<1>4. /\ UART0_buf' \in [Positions -> Characters \cup {NUL, CR}]
      /\ \A p \in Positions : UART0_buf'[p] \in {NUL, UART0_buf[p]}
  <2>1. CASE Enter \/ SearchIndexOf \/ Execute
    BY <1>n, <2>1 DEF Enter, SearchIndexOf, Execute
  <2>2. CASE ShowMenu
    BY <1>n, <2>2 DEF ShowMenu
  <2>3. CASE Reset
    BY <1>n, <2>3 DEF Reset
  <2>. QED
    BY <2>1, <2>2, <2>3 DEF debug
<1>5. LastIsNul'
  BY <1>0, <1>4 DEF LastIsNul
<1>6. fresh' \in BOOLEAN
  BY <1>0 DEF debug, Enter, ShowMenu, SearchIndexOf, Execute, Reset, TypeOK
<1>7. ASSUME UART0_buf[first + j - 1] # NUL PROVE first + j - 1 < BufSize - 1
  BY <1>0, <1>7, <1>n DEF LastIsNul
<1>8. /\ pc' \in {"loop", "menu", "search", "execute", "reset"} /\ keyword' \in DOMAIN Keywords
      /\ j' \in DOMAIN Keywords[keyword'] /\ first' \in Positions
      /\ first' + j' - 1 \in Positions
  <2>1. CASE Enter
    <3>1. 1 \in DOMAIN Keywords
      BY Constants
    <3>. QED
      BY <1>1, <2>1, <3>1 DEF Enter
  <2>2. CASE ShowMenu
    BY <1>0, <2>2 DEF ShowMenu, Goto, TypeOK
  <2>3. CASE SearchIndexOf
    <3>. DEFINE c == UART0_buf[first + j - 1]
                str == Keywords[keyword]
    <3>1. CASE NextKeyword
      BY <1>2, <3>1
    <3>2. CASE c = str[j] /\ j < Len(str) /\ j' = j + 1 /\ UNCHANGED <<pc, keyword, first>>
      <4>1. c # NUL
        <5>1. Key(str[j])
          BY <1>n, KeywordShape
        <5>. QED
          BY <3>2, <5>1, NoKey
      <4>2. first + j - 1 < BufSize - 1
        BY <1>7, <4>1
      <4>3. j' \in DOMAIN Keywords[keyword'] /\ first' + j' - 1 \in Positions
        BY <1>0, <1>n, <3>2, <4>2
      <4>. QED
        BY <1>0, <3>2, <4>3 DEF TypeOK
    <3>3. CASE Goto("execute")
      BY <1>0, <3>3 DEF Goto, TypeOK
    <3>4. CASE c # NUL /\ c # str[j] /\ first' = first + 1 /\ j' = 1 /\ UNCHANGED <<pc, keyword>>
      <4>1. first + j - 1 < BufSize - 1
        BY <1>7, <3>4
      <4>2. first + 1 \in Positions /\ first + 1 + 1 - 1 \in Positions
        BY <1>0, <1>n, <4>1
      <4>. QED
        BY <1>0, <1>1, <1>n, <3>4, <4>2 DEF TypeOK
    <3>. QED
      BY <2>3, <3>1, <3>2, <3>3, <3>4 DEF SearchIndexOf
  <2>4. CASE Execute
    BY <1>0, <1>1, <1>n, <2>4 DEF Execute
  <2>5. CASE Reset
    <3>1. CASE NextKeyword
      BY <1>2, <3>1
    <3>2. CASE UART0_buf[first] # NUL /\ first' = first + 1 /\ UNCHANGED <<pc, keyword, j>>
      <4>1. j = 1
        BY <1>0, <2>5 DEF AtFirst, Reset
      <4>2. first + 1 \in Positions /\ first + 1 + j - 1 \in Positions
        BY <1>0, <1>7, <1>n, <3>2, <4>1
      <4>. QED
        BY <1>0, <3>2, <4>2 DEF TypeOK
    <3>. QED
      BY <2>5, <3>1, <3>2 DEF Reset
  <2>. QED
    BY <2>1, <2>2, <2>3, <2>4, <2>5 DEF debug
<1>9. TypeOK'
  BY <1>0, <1>3, <1>4, <1>6, <1>8 DEF TypeOK
<1>10. AtFirst'
  BY <1>0 DEF AtFirst, debug, Enter, ShowMenu, SearchIndexOf, Execute, Reset, NextKeyword, Goto
<1>. QED
  BY <1>3, <1>5, <1>9, <1>10 DEF BoundsInv

\* Of a FIFO into which the next character of the line comes.
LEMMA TypedShape ==
    ASSUME TypeOK, Type
    PROVE  /\ fifo' = Append(fifo, line.text[sofar + 1])
           /\ fifo' \in Seq(Characters \cup {CR})
           /\ Len(fifo') = Len(fifo) + 1 /\ Len(fifo') <= MaxFifo
           /\ fifo'[Len(fifo) + 1] = line.text[sofar + 1]
           /\ \A i \in 1 .. Len(fifo) : fifo'[i] = fifo[i]
           /\ sofar' = sofar + 1 /\ sofar < Len(line.text) /\ Len(line.text) < BufSize
           /\ line.text[sofar + 1] = CR <=> sofar + 1 = Len(line.text)
<1>1. /\ fifo \in Seq(Characters \cup {CR}) /\ Len(fifo) \in Nat
      /\ line \in Lines \cup {NoLine} /\ Len(line.text) \in Nat
      /\ sofar \in Nat /\ sofar < Len(line.text) /\ sofar' = sofar + 1
      /\ Len(fifo) < MaxFifo /\ MaxFifo \in Nat
  BY Numbers, Constants DEF Type
<1>2. /\ line.text \in Seq(Characters \cup {CR}) /\ Len(line.text) < BufSize
      /\ \A i \in 1 .. Len(line.text) : line.text[i] = CR <=> i = Len(line.text)
  BY <1>1, LineBounds
<1>3. sofar + 1 \in 1 .. Len(line.text)
  BY <1>1
<1>4. line.text[sofar + 1] \in Characters \cup {CR}
  BY <1>2, <1>3
<1>5. fifo' = Append(fifo, line.text[sofar + 1])
  BY <1>1 DEF Type
<1>6. /\ fifo' \in Seq(Characters \cup {CR}) /\ Len(fifo') = Len(fifo) + 1
      /\ fifo'[Len(fifo) + 1] = line.text[sofar + 1]
      /\ \A i \in 1 .. Len(fifo) : fifo'[i] = fifo[i]
  BY <1>1, <1>4, <1>5, AppendProperties
<1>7. Len(fifo') <= MaxFifo
  BY <1>1, <1>6
<1>. QED
  BY <1>1, <1>2, <1>3, <1>5, <1>6, <1>7

\* The user types a character.
LEMMA TypeBounds == ASSUME BoundsInv, Type PROVE BoundsInv'
<1>1. /\ TypeOK /\ RunsFit /\ LastIsNul /\ AtFirst
      /\ UNCHANGED <<UART0_buf, bufCount_0, serving, pc, keyword, first, j, fresh, line, lines>>
  BY DEF BoundsInv, Type, mainVars
<1>0. PICK L \in Nat : L = Len(fifo)
  BY <1>1, Numbers
<1>. DEFINE c == line.text[sofar + 1]
<1>2. /\ fifo' \in Seq(Characters \cup {CR}) /\ Len(fifo') = L + 1 /\ Len(fifo') <= MaxFifo
      /\ fifo'[L + 1] = c /\ \A i \in 1 .. L : fifo'[i] = fifo[i]
      /\ sofar' = sofar + 1 /\ sofar < Len(line.text) /\ Len(line.text) < BufSize
      /\ c = CR <=> sofar + 1 = Len(line.text)
  BY <1>0, <1>1, TypedShape
<1>3. /\ L \in Nat /\ bufCount_0 \in Nat /\ BufSize \in Nat /\ sofar \in Nat
      /\ Len(line.text) \in Nat /\ BufSize >= 2
  BY <1>1, Numbers, Constants
<1>. HIDE DEF c
<1>4. sofar' \in 0 .. Len(line.text)
  BY <1>2, <1>3
<1>5. TypeOK'
  BY <1>1, <1>2, <1>4 DEF TypeOK
<1>6. ASSUME NEW a \in 1 .. L + 1, NEW b \in 0 .. L
      PROVE  Unbroken(a, b)' <=> Unbroken(a, b)
  <2>1. \A i \in a .. b : fifo'[i] = fifo[i]
    BY <1>2, <1>3
  <2>. QED
    BY <2>1 DEF Unbroken
<1>7. ASSUME NEW a \in 1 .. L + 1, \A i \in a .. L + 1 : fifo'[i] # CR
      PROVE  Unbroken(a, L) /\ sofar + 1 # Len(line.text)
  <2>1. fifo'[L + 1] # CR
    BY <1>3, <1>7
  <2>2. \A i \in a .. L : fifo[i] # CR
    BY <1>2, <1>3, <1>7
  <2>. QED
    BY <1>2, <2>1, <2>2 DEF Unbroken
<1>8. Begun = sofar /\ (sofar + 1 # Len(line.text) => Begun' = sofar + 1) /\ Begun' \in Nat
  BY <1>1, <1>2, <1>3 DEF Begun
<1>9. sofar + 1 # Len(line.text) => sofar + 1 <= BufSize - 2
  BY <1>2, <1>3
<1>10. /\ \A b \in 0 .. L : Unbroken(1, b) => bufCount_0 + b <= BufSize - 2
       /\ \A a, b \in 1 .. L : Unbroken(a, b) => b - a + 1 <= BufSize - 2
       /\ Unbroken(1, L) => bufCount_0 + L <= sofar
       /\ \A a \in 1 .. L + 1 : Unbroken(a, L) => L - a + 1 <= sofar
  BY <1>0, <1>1, <1>8 DEF RunsFit
<1>11. /\ Unbroken(1, L + 1)' => bufCount_0 + (L + 1) <= sofar + 1 /\ sofar + 1 # Len(line.text)
       /\ \A a \in 1 .. L + 1 :
              Unbroken(a, L + 1)' => /\ (L + 1) - a + 1 <= sofar + 1
                                     /\ sofar + 1 # Len(line.text)
  <2>1. ASSUME NEW a \in 1 .. L + 1, Unbroken(a, L + 1)'
        PROVE  Unbroken(a, L) /\ sofar + 1 # Len(line.text)
    <3>1. \A i \in a .. L + 1 : fifo'[i] # CR
      BY <2>1, <1>3 DEF Unbroken
    <3>. QED
      BY <1>7, <3>1
  <2>2. ASSUME NEW a \in 1 .. L + 1, Unbroken(a, L) PROVE (L + 1) - a + 1 <= sofar + 1
    <3>1. L - a + 1 <= sofar
      BY <1>10, <2>2
    <3>. QED
      BY <1>3, <3>1
  <2>3. Unbroken(1, L) => bufCount_0 + (L + 1) <= sofar + 1
    BY <1>3, <1>10
  <2>4. 1 \in 1 .. L + 1
    BY <1>3
  <2>. QED
    BY <2>1, <2>2, <2>3, <2>4
<1>12. \A b \in 0 .. L + 1 : Unbroken(1, b)' => bufCount_0 + b <= BufSize - 2
  <2>. SUFFICES ASSUME NEW b \in 0 .. L + 1, Unbroken(1, b)'
                PROVE  bufCount_0 + b <= BufSize - 2
    OBVIOUS
  <2>1. CASE b = L + 1
    <3>1. bufCount_0 + (L + 1) <= sofar + 1 /\ sofar + 1 <= BufSize - 2
      BY <1>3, <1>9, <1>11, <2>1
    <3>. QED
      BY <1>3, <2>1, <3>1
  <2>2. CASE b # L + 1
    <3>1. b \in 0 .. L /\ 1 \in 1 .. L + 1
      BY <1>3, <2>2
    <3>. QED
      BY <1>6, <1>10, <3>1
  <2>. QED
    BY <2>1, <2>2
<1>13. \A a, b \in 1 .. L + 1 : Unbroken(a, b)' => b - a + 1 <= BufSize - 2
  <2>. SUFFICES ASSUME NEW a \in 1 .. L + 1, NEW b \in 1 .. L + 1, Unbroken(a, b)'
                PROVE  b - a + 1 <= BufSize - 2
    OBVIOUS
  <2>1. CASE b = L + 1
    <3>1. (L + 1) - a + 1 <= sofar + 1 /\ sofar + 1 <= BufSize - 2
      BY <1>3, <1>9, <1>11, <2>1
    <3>. QED
      BY <1>3, <2>1, <3>1
  <2>2. CASE b # L + 1 /\ a = L + 1
    BY <1>3, <2>2
  <2>3. CASE b # L + 1 /\ a # L + 1
    <3>1. b \in 0 .. L /\ a \in 1 .. L /\ b \in 1 .. L
      BY <1>3, <2>3
    <3>. QED
      BY <1>6, <1>10, <3>1
  <2>. QED
    BY <2>1, <2>2, <2>3
<1>14. Unbroken(1, L + 1)' => bufCount_0 + (L + 1) <= Begun'
  BY <1>8, <1>11
<1>15. \A a \in 1 .. L + 2 : Unbroken(a, L + 1)' => (L + 1) - a + 1 <= Begun'
  <2>. SUFFICES ASSUME NEW a \in 1 .. L + 2, Unbroken(a, L + 1)'
                PROVE  (L + 1) - a + 1 <= Begun'
    OBVIOUS
  <2>1. CASE a = L + 2
    BY <1>3, <1>8, <2>1
  <2>2. CASE a # L + 2
    <3>1. a \in 1 .. L + 1
      BY <1>3, <2>2
    <3>. QED
      BY <1>8, <1>11, <3>1
  <2>. QED
    BY <2>1, <2>2
<1>16. RunsFit'
  <2>1. Len(fifo') + 1 = L + 2
    BY <1>2, <1>3
  <2>. QED
    BY <1>1, <1>2, <1>12, <1>13, <1>14, <1>15, <2>1 DEF RunsFit
<1>. QED
  BY <1>1, <1>5, <1>16 DEF BoundsInv, LastIsNul, AtFirst

\* A new line is begun when the one before is typed: nothing is in the way of it.
LEMMA BeginBounds == ASSUME BoundsInv, BeginLine PROVE BoundsInv'
<1>1. /\ TypeOK /\ RunsFit /\ LastIsNul /\ AtFirst
      /\ UNCHANGED <<UART0_buf, bufCount_0, fifo, serving, pc, keyword, first, j, fresh>>
      /\ line' \in Lines /\ sofar' = 0 /\ sofar = Len(line.text)
      /\ lines' = lines + 1 /\ lines < MaxLines
  BY DEF BoundsInv, BeginLine, mainVars
<1>2. Len(line'.text) \in Nat
  BY <1>1, LineShape
<1>3. sofar' \in 0 .. Len(line'.text)
  BY <1>1, <1>2
<1>4. lines' \in 0 .. MaxLines
  BY <1>1, Constants DEF TypeOK
<1>5. TypeOK'
  BY <1>1, <1>3, <1>4 DEF TypeOK
<1>6. Begun = 0 /\ Begun' = 0
  BY <1>1 DEF Begun
<1>7. RunsFit'
  BY <1>1, <1>6 DEF RunsFit, Unbroken
<1>. QED
  BY <1>1, <1>5, <1>7 DEF BoundsInv, LastIsNul, AtFirst

\* Whatever is typed, and however fast.
THEOREM BoundsCorrect == Spec => []BoundsInv
<1>1. BoundsInv /\ [Next]_vars => BoundsInv'
  <2>. SUFFICES ASSUME BoundsInv, [Next]_vars PROVE BoundsInv'
    OBVIOUS
  <2>1. CASE Interrupt
    BY <2>1, HandlerBounds, GetBounds DEF Interrupt
  <2>2. CASE debug
    BY <2>2, DebugBounds
  <2>3. CASE BeginLine
    BY <2>3, BeginBounds
  <2>4. CASE Type
    BY <2>4, TypeBounds
  <2>5. CASE UNCHANGED vars
    <3>1. UNCHANGED <<UART0_buf, bufCount_0, fifo, serving, pc, keyword, first, j, fresh,
                      line, sofar, lines, typed, executed>>
      BY <2>5 DEF vars, mainVars, userVars
    <3>2. RunsFit'
      BY <3>1, RunsKept DEF BoundsInv
    <3>. QED
      BY <3>1, <3>2 DEF BoundsInv, TypeOK, LastIsNul, AtFirst
  <2>. QED
    BY <2>1, <2>2, <2>3, <2>4, <2>5 DEF Next
<1>. QED
  BY <1>1, InitBounds, PTL DEF Spec

\* The interrupt writes, and debug() reads and writes, inside the command buffer,
\* even if the user types ahead (UART.c:29-38, debug.c:8-36).
THEOREM ConsoleTypeCorrect == Spec => []TypeOK
BY BoundsCorrect, PTL DEF BoundsInv

---------------------------------------------------------------------------
(* A user who waits for main *)

\* What is known of the line under way.
LEMMA LineFacts ==
    ASSUME NEW l \in Lines \cup {NoLine}
    PROVE  /\ Len(l.text) \in Nat /\ Len(l.text) < BufSize
           /\ \A i \in 1 .. Len(l.text) : /\ l.text[i] = CR <=> i = Len(l.text)
                                          /\ l.text[i] # NUL
           /\ l.ask \in {Nothing, Menu} \cup DOMAIN Keywords
           /\ l.at \in Nat /\ l.at <= Len(l.text)
           /\ Len(l.text) >= 1 /\ l.text[1] = CR => l.ask = Menu
           /\ l.ask = Menu => Len(l.text) = 1 /\ l.at = 1
           /\ l.ask # Nothing =>
                 /\ l \in Lines /\ l.at >= 1 /\ Len(l.text) >= 1
                 /\ \A i \in 1 .. Len(l.text) : i > l.at => ~Key(l.text[i])
           /\ l.ask \in DOMAIN Keywords =>
                 /\ Len(Keywords[l.ask]) <= l.at
                 /\ \A p \in 1 .. Len(Keywords[l.ask]) :
                       l.text[l.at - Len(Keywords[l.ask]) + p] = Keywords[l.ask][p]
<1>1. CASE l \in Lines
  BY <1>1, LineShape
<1>2. CASE l = NoLine
  <2>1. l.text = <<>> /\ Len(l.text) = 0 /\ l.ask = Nothing /\ l.at = 0
    BY <1>2 DEF NoLine
  <2>2. Nothing # Menu /\ Nothing \notin DOMAIN Keywords /\ 0 < BufSize
    BY Constants
  <2>. QED
    BY <2>1, <2>2
<1>. QED
  BY <1>1, <1>2

\* What the invariant says of the numbers of characters.
LEMMA Situation ==
    ASSUME NEW before, UserInv(before)
    PROVE  /\ TypeOK /\ BoundsInv
           /\ Stored \in Nat /\ sofar \in Nat /\ Len(fifo) \in Nat
           /\ sofar = Stored + Len(fifo) /\ sofar <= Len(line.text)
           /\ line \in Lines \cup {NoLine} /\ Len(line.text) \in Nat /\ Len(line.text) < BufSize
           /\ fifo = <<>> <=> Len(fifo) = 0
           /\ BufSize \in Nat /\ BufSize >= 2 /\ Positions = 0 .. BufSize - 1
           /\ UART0_buf \in [Positions -> Characters \cup {NUL, CR}]
           /\ Done => Stored >= 1
<1>1. TypeOK /\ BoundsInv /\ Flow /\ Asked
  BY DEF UserInv, BoundsInv
<1>2. /\ fifo \in Seq(Characters \cup {CR}) /\ Len(fifo) \in Nat
      /\ line \in Lines \cup {NoLine} /\ Len(line.text) \in Nat
      /\ sofar \in Nat /\ sofar <= Len(line.text)
  BY <1>1, Numbers
<1>3. fifo = <<>> <=> Len(fifo) = 0
  BY <1>2, EmptySeq
<1>4. Len(line.text) < BufSize /\ (line.ask # Nothing => line.at >= 1) /\ line.at \in Nat
  BY <1>2, LineFacts
<1>5. Stored \in Nat /\ sofar = Stored + Len(fifo)
  BY <1>1, <1>2 DEF Flow, Stored
<1>6. Done => Stored >= 1
  BY <1>1, <1>4, <1>5 DEF Asked, Done
<1>. QED
  BY <1>1, <1>2, <1>3, <1>4, <1>5, <1>6, Constants DEF TypeOK

\* While Enter is the first character, the menu is asked for and not executed.
LEMMA MenuAsked ==
    ASSUME NEW before, UserInv(before), UART0_buf[0] = CR
    PROVE  /\ line.ask = Menu /\ line.at = 1 /\ Len(line.text) = 1
           /\ Stored = 1 /\ sofar = 1 /\ Len(fifo) = 0
           /\ ~Done /\ typed # executed /\ typed = Append(executed, Menu)
<1>1. MenuKey /\ Asked
  BY DEF UserInv
<1>2. line.ask = Menu /\ Stored = 1 /\ ~Done
  BY <1>1 DEF MenuKey
<1>3. line.at = 1 /\ Len(line.text) = 1
  BY <1>2, Situation, LineFacts
<1>4. sofar = 1 /\ Len(fifo) = 0
  <2>1. sofar \in Nat /\ Len(fifo) \in Nat /\ sofar = Stored + Len(fifo) /\ sofar <= Len(line.text)
    BY Situation
  <2>. QED
    BY <1>2, <1>3, <2>1
<1>5. Menu # Nothing
  BY Constants
<1>6. typed # executed
  BY <1>2, <1>3, <1>4, <1>5 DEF Done
<1>. QED
  BY <1>1, <1>2, <1>3, <1>4, <1>6 DEF Asked

\* The interrupt begins: it clears the line before, of which nothing is left.
LEMMA HandlerStep ==
    ASSUME NEW before, UserInv(before), UART0_IntHandler
    PROVE  UserInv(before)'
<1>1. /\ Flow /\ Asked /\ Written /\ Keys(before) /\ Old /\ MenuKey /\ Passes /\ Executes
      /\ Searches(before) /\ BoundsInv'
  BY Situation, HandlerBounds DEF UserInv
<1>2. /\ Stored \in Nat /\ sofar = Stored + Len(fifo) /\ sofar <= Len(line.text)
      /\ Len(fifo) \in Nat /\ Len(line.text) \in Nat /\ Len(fifo) # 0
      /\ BufSize \in Nat /\ BufSize >= 2 /\ Positions = 0 .. BufSize - 1
      /\ UART0_buf \in [Positions -> Characters \cup {NUL, CR}]
      /\ line \in Lines \cup {NoLine} /\ Done => Stored >= 1
  BY Situation DEF UART0_IntHandler
<1>3. /\ fifo # <<>> /\ serving' = TRUE
      /\ UART0_buf' = IF bufCount_0 = 0 THEN Cleared(UART0_buf) ELSE UART0_buf
      /\ UNCHANGED <<bufCount_0, fifo, pc, keyword, first, j, fresh, line, sofar, typed,
                     executed>>
  BY DEF UART0_IntHandler, mainVars, userVars
<1>4. Stored' = Stored /\ (Done' <=> Done) /\ bufCount_0 = Stored
  BY <1>1, <1>2, <1>3 DEF Stored, Done, Flow
<1>5. /\ \A p \in Positions : UART0_buf'[p] \in {NUL, UART0_buf[p]}
      /\ Stored # 0 => UART0_buf' = UART0_buf
  BY <1>2, <1>3, <1>4, ClearedShape
<1>6. Stored = 0 => NoKeys'
  <2>. SUFFICES ASSUME Stored = 0, NEW p \in Positions, Key(UART0_buf'[p]) PROVE FALSE
    BY DEF NoKeys
  <2>1. UART0_buf'[p] = UART0_buf[p] /\ UART0_buf[p] # NUL /\ UART0_buf'[p] # NUL
    BY <1>5, NoKey
  <2>2. \A q \in 0 .. p - 1 : UART0_buf[q] # NUL
    BY <1>1, <2>1 DEF Old
  <2>3. \A q \in 0 .. p : UART0_buf[q] # NUL
    BY <1>2, <2>1, <2>2
  <2>4. UART0_buf'[p] = NUL
    BY <1>2, <1>3, <1>4, <2>3, ClearedShape
  <2>. QED
    BY <2>1, <2>4
<1>7. Flow' /\ Asked'
  BY <1>1, <1>3, <1>4 DEF Flow, Asked
<1>8. Written'
  BY <1>1, <1>2, <1>3, <1>4, <1>5 DEF Written
<1>9. Keys(before)' /\ Old'
  BY <1>1, <1>3, <1>4, <1>5, <1>6 DEF Keys, Old, NoKeys
<1>10. MenuKey'
  <2>1. 0 \in Positions
    BY <1>2
  <2>. QED
    BY <1>1, <1>3, <1>4, <1>5, <2>1, Constants DEF MenuKey
<1>11. pc # "menu"
  BY <1>1, <1>2, MenuAsked DEF Executes
<1>12. Passes'
  BY <1>1, <1>3, <1>4 DEF Passes
<1>13. Executes'
  <2>1. pc = "execute" => line.ask = keyword /\ Stored >= line.at /\ typed # executed
    BY <1>1 DEF Executes
  <2>2. Done => UART0_buf' = UART0_buf
    <3>. SUFFICES ASSUME Done PROVE Stored # 0
      BY <1>5
    <3>1. Stored >= 1
      BY Situation
    <3>. QED
      BY <3>1
  <2>3. pc = "reset" => Done /\ \A p \in Positions :
                 Key(UART0_buf[p]) => p >= first /\ (\A q \in first .. p - 1 : UART0_buf[q] # NUL)
    BY <1>1 DEF Executes
  <2>4. (pc = "execute" => line.ask = keyword /\ Stored >= line.at /\ typed # executed)'
    BY <1>3, <1>4, <2>1
  <2>5. (pc = "reset" => Done /\ \A p \in Positions :
                 Key(UART0_buf[p]) => p >= first /\ (\A q \in first .. p - 1 : UART0_buf[q] # NUL))'
    BY <1>3, <1>4, <2>2, <2>3
  <2>6. (Done /\ pc # "reset" => NoKeys)'
    <3>1. Done /\ pc # "reset" => NoKeys
      BY <1>1 DEF Executes
    <3>. QED
      BY <1>3, <1>4, <2>2, <3>1 DEF NoKeys
  <2>. QED
    BY <1>3, <1>11, <2>4, <2>5, <2>6 DEF Executes
<1>14. Searches(before)'
  BY <1>1, <1>3, <1>4 DEF Searches, Matched
<1>. QED
  BY <1>1, <1>7, <1>8, <1>9, <1>10, <1>12, <1>13, <1>14 DEF UserInv

\* The interrupt ends: there was something to fetch.
LEMMA EndStep ==
    ASSUME NEW before, UserInv(before), UARTGetBuffer, fifo = <<>>
    PROVE  UserInv(before)'
<1>1. /\ Flow /\ Asked /\ Written /\ Keys(before) /\ Old /\ MenuKey /\ Passes /\ Executes
      /\ Searches(before) /\ BoundsInv'
  BY Situation, GetBounds DEF UserInv
<1>2. /\ serving' = FALSE
      /\ UNCHANGED <<UART0_buf, bufCount_0, fifo, pc, keyword, first, j, fresh, line, sofar,
                     typed, executed>>
  BY DEF UARTGetBuffer, mainVars, userVars
<1>3. Stored' = Stored /\ (Done' <=> Done)
  BY <1>2 DEF Stored, Done
<1>4. Flow' /\ Asked' /\ Written'
  BY <1>1, <1>2, <1>3 DEF Flow, Asked, Written
<1>5. Keys(before)' /\ Old' /\ MenuKey'
  BY <1>1, <1>2, <1>3 DEF Keys, Old, MenuKey
<1>6. Passes' /\ Executes'
  BY <1>1, <1>2, <1>3 DEF Passes, Executes, NoKeys
<1>7. Searches(before)'
  BY <1>1, <1>2, <1>3 DEF Searches, Matched
<1>. QED
  BY <1>1, <1>4, <1>5, <1>6, <1>7 DEF UserInv

\* The interrupt stores the next character of the line.
LEMMA StoreStep ==
    ASSUME NEW before, UserInv(before), UARTGetBuffer, fifo # <<>>
    PROVE  UserInv(before)'
<1>1. /\ Flow /\ Asked /\ Written /\ Keys(before) /\ Old /\ MenuKey /\ Passes /\ Executes
      /\ Searches(before) /\ BoundsInv'
  BY Situation, GetBounds DEF UserInv
<1>0. PICK T : T = line.text
  OBVIOUS
<1>2. PICK s \in Nat : s = Stored /\ T = line.text
  BY <1>0, Situation
<1>3. /\ Len(T) \in Nat /\ Len(fifo) \in Nat /\ sofar \in Nat
      /\ sofar = s + Len(fifo) /\ sofar <= Len(T) /\ Len(T) < BufSize
      /\ BufSize \in Nat /\ Positions = 0 .. BufSize - 1
      /\ UART0_buf \in [Positions -> Characters \cup {NUL, CR}]
      /\ line \in Lines \cup {NoLine} /\ (Done => s >= 1)
      /\ fifo \in Seq(Characters \cup {CR}) /\ Len(fifo) # 0
  BY <1>2, Situation DEF TypeOK
<1>4. s < Len(T) /\ s \in Positions /\ s + 1 \in 1 .. Len(T) /\ bufCount_0 = s
  <2>1. s < Len(T) /\ s \in 0 .. BufSize - 1 /\ s + 1 \in 1 .. Len(T)
    BY <1>3
  <2>. QED
    BY <1>1, <1>2, <1>3, <2>1 DEF Flow
<1>5. /\ Len(fifo') = Len(fifo) - 1 /\ DOMAIN fifo' = 1 .. Len(fifo) - 1
      /\ \A i \in 1 .. Len(fifo) - 1 : fifo'[i] = fifo[i + 1]
  <2>1. TypeOK /\ fifo # <<>> /\ fifo' = Tail(fifo)
    BY Situation DEF UARTGetBuffer
  <2>2. /\ Len(fifo') = Len(fifo) - 1 /\ fifo' \in Seq(Characters \cup {CR})
        /\ \A i \in 1 .. Len(fifo) - 1 : fifo'[i] = fifo[i + 1]
    BY <2>1, TailShape
  <2>. QED
    BY <2>2, LenProperties
<1>6. Head(fifo) = T[s + 1] /\ \A i \in 1 .. Len(fifo) : fifo[i] = T[s + i]
  <2>1. \A i \in 1 .. Len(fifo) : fifo[i] = T[s + i]
    BY <1>1, <1>2, <1>3 DEF Flow
  <2>2. Head(fifo) = fifo[1] /\ 1 \in 1 .. Len(fifo)
    BY <1>3
  <2>. QED
    BY <2>1, <2>2
<1>7. /\ UART0_buf' = [UART0_buf EXCEPT ![s] = T[s + 1]]
      /\ bufCount_0' = IF T[s + 1] = CR THEN 0 ELSE s + 1
      /\ fresh' = TRUE /\ serving = TRUE /\ serving' = TRUE
      /\ UNCHANGED <<pc, keyword, first, j, line, sofar, typed, executed>>
  BY <1>1, <1>4, <1>6 DEF UARTGetBuffer, Store, mainVars, userVars, BoundsInv, TypeOK
<1>8. /\ Stored' = s + 1 /\ (Done' <=> Done)
      /\ \A p \in Positions : UART0_buf'[p] = IF p = s THEN T[s + 1] ELSE UART0_buf[p]
  <2>1. Stored' = sofar - (Len(fifo) - 1)
    BY <1>5, <1>7 DEF Stored
  <2>2. Stored' = s + 1
    BY <1>3, <2>1
  <2>3. Done' <=> Done
    BY <1>7 DEF Done
  <2>4. \A p \in Positions : UART0_buf'[p] = IF p = s THEN T[s + 1] ELSE UART0_buf[p]
    BY <1>3, <1>7
  <2>. QED
    BY <2>2, <2>3, <2>4
<1>9. (T[s + 1] = CR <=> s + 1 = Len(T)) /\ T[s + 1] # NUL
  BY <1>2, <1>3, <1>4, LineFacts
<1>10. UART0_buf[0] # CR
  BY <1>3, MenuAsked
<1>11. Done => s >= line.at /\ ~Key(T[s + 1])
  <2>. SUFFICES ASSUME Done PROVE s >= line.at /\ ~Key(T[s + 1])
    OBVIOUS
  <2>1. s >= line.at /\ line.ask # Nothing
    BY <1>1, <1>2 DEF Asked, Done
  <2>2. line.at \in Nat /\ \A i \in 1 .. Len(T) : i > line.at => ~Key(T[i])
    BY <1>2, <1>3, <2>1, LineFacts
  <2>3. s + 1 > line.at
    BY <2>1, <2>2
  <2>. QED
    BY <1>4, <2>1, <2>2, <2>3
<1>12. Flow'
  <2>1. \A i \in 1 .. Len(fifo) - 1 : fifo'[i] = T[(s + 1) + i]
    <3>. SUFFICES ASSUME NEW i \in 1 .. Len(fifo) - 1 PROVE fifo'[i] = T[(s + 1) + i]
      OBVIOUS
    <3>1. i + 1 \in 1 .. Len(fifo) /\ s + (i + 1) = (s + 1) + i
      BY <1>3
    <3>. QED
      BY <1>5, <1>6, <3>1
  <2>2. Len(fifo') <= sofar'
    BY <1>3, <1>5, <1>7
  <2>3. bufCount_0' = IF Stored' = Len(line'.text) THEN 0 ELSE Stored'
    BY <1>2, <1>7, <1>8, <1>9
  <2>. QED
    BY <1>2, <1>5, <1>7, <1>8, <2>1, <2>2, <2>3 DEF Flow
<1>13. Asked'
  <2>1. Done' => Stored' >= line'.at
    <3>1. line.at \in Nat
      BY <1>3, LineFacts
    <3>. QED
      BY <1>2, <1>7, <1>8, <1>11, <3>1
  <2>. QED
    BY <1>1, <1>7, <2>1 DEF Asked
<1>14. Written'
  <2>. SUFFICES ASSUME ~Done, NEW q \in 0 .. s PROVE UART0_buf'[q] = T[q + 1]
    BY <1>2, <1>7, <1>8 DEF Written
  <2>1. q \in Positions /\ (q = s \/ q \in 0 .. s - 1)
    BY <1>3, <1>4
  <2>. QED
    BY <1>1, <1>2, <1>8, <2>1 DEF Written
<1>15. Keys(before)' /\ Old'
  <2>1. Stored' # 0
    BY <1>8
  <2>2. ASSUME NEW p \in Positions, Key(UART0_buf'[p])
        PROVE  p < s + 1 /\ UART0_buf'[p] = T[p + 1]
    <3>1. CASE p = s
      BY <1>8, <3>1
    <3>2. CASE p # s
      <4>1. UART0_buf'[p] = UART0_buf[p] /\ Key(UART0_buf[p])
        BY <1>8, <2>2, <3>2
      <4>2. s # 0
        BY <1>1, <1>2, <1>7, <4>1 DEF Old
      <4>3. p < s /\ UART0_buf[p] = T[p + 1]
        BY <1>1, <1>2, <4>1, <4>2 DEF Keys
      <4>. QED
        BY <1>3, <4>1, <4>3
    <3>. QED
      BY <3>1, <3>2
  <2>. QED
    BY <1>2, <1>7, <1>8, <2>1, <2>2 DEF Keys, Old
<1>16. MenuKey'
  <2>. SUFFICES ASSUME UART0_buf'[0] = CR PROVE line.ask = Menu /\ s + 1 = 1 /\ ~Done
    BY <1>2, <1>7, <1>8 DEF MenuKey
  <2>1. 0 \in Positions
    BY <1>3, <1>4
  <2>2. s = 0 /\ T[1] = CR
    BY <1>8, <1>10, <2>1
  <2>. QED
    BY <1>2, <1>3, <1>4, <2>2, LineFacts
<1>17. Passes'
  BY <1>7 DEF Passes
<1>18. Executes'
  <2>1. pc' # "menu"
    BY <1>1, <1>7, <1>10 DEF Executes
  <2>2. (pc = "execute" => line.ask = keyword /\ Stored >= line.at /\ typed # executed)'
    <3>1. line.at \in Nat
      BY <1>3, LineFacts
    <3>2. pc = "execute" => line.ask = keyword /\ s >= line.at /\ typed # executed
      BY <1>1, <1>2 DEF Executes
    <3>. QED
      BY <1>7, <1>8, <3>1, <3>2
  <2>3. (pc = "reset" => Done /\ \A p \in Positions :
             Key(UART0_buf[p]) => p >= first /\ (\A q \in first .. p - 1 : UART0_buf[q] # NUL))'
    <3>. SUFFICES ASSUME pc = "reset"
                  PROVE  Done /\ \A p \in Positions :
             Key(UART0_buf'[p]) => p >= first /\ (\A q \in first .. p - 1 : UART0_buf'[q] # NUL)
      BY <1>7, <1>8
    <3>1. Done /\ \A p \in Positions :
             Key(UART0_buf[p]) => p >= first /\ (\A q \in first .. p - 1 : UART0_buf[q] # NUL)
      BY <1>1 DEF Executes
    <3>2. ASSUME NEW p \in Positions, Key(UART0_buf'[p])
          PROVE  p >= first /\ (\A q \in first .. p - 1 : UART0_buf'[q] # NUL)
      <4>1. Key(UART0_buf[p])
        BY <1>8, <1>11, <3>1, <3>2
      <4>2. p >= first /\ (\A q \in first .. p - 1 : UART0_buf[q] # NUL)
        BY <3>1, <4>1
      <4>3. first .. p - 1 \subseteq Positions
        BY <1>3, Situation DEF TypeOK
      <4>. QED
        BY <1>8, <1>9, <4>2, <4>3
    <3>. QED
      BY <3>1, <3>2
  <2>4. (Done /\ pc # "reset" => NoKeys)'
    <3>1. Done /\ pc # "reset" => NoKeys
      BY <1>1 DEF Executes
    <3>. QED
      BY <1>7, <1>8, <1>11, <3>1 DEF NoKeys
  <2>. QED
    BY <2>1, <2>2, <2>3, <2>4 DEF Executes
<1>19. Searches(before)'
  <2>. SUFFICES ASSUME pc = "search"
                PROVE  (\E split \in 0 .. first + j - 1 :
                           (Stored = 0 => split = first + j - 1) /\ Matched(split, before))'
    BY <1>7 DEF Searches
  <2>1. PICK split \in 0 .. first + j - 1 : Matched(split, before)
    BY <1>1 DEF Searches
  <2>2. Matched(split, before)'
    <3>. SUFFICES ASSUME NEW i \in 1 .. j - 1
                  PROVE  \/ /\ first + i <= split /\ first + i <= Len(before)
                            /\ Keywords[keyword][i] = before[first + i]
                         \/ /\ split < first + i /\ first + i <= s + 1
                            /\ Keywords[keyword][i] = T[first + i]
      BY <1>2, <1>7, <1>8 DEF Matched
    <3>1. \/ /\ first + i <= split /\ first + i <= Len(before)
             /\ Keywords[keyword][i] = before[first + i]
          \/ /\ split < first + i /\ first + i <= s
             /\ Keywords[keyword][i] = T[first + i]
      BY <1>2, <2>1 DEF Matched
    <3>2. first + i \in Int
      <4>1. first \in Int /\ j \in Int
        BY Situation, Numbers
      <4>. QED
        BY <4>1
    <3>. QED
      BY <3>1, <3>2
  <2>3. Stored' # 0
    BY <1>8
  <2>. QED
    BY <1>7, <2>2, <2>3
<1>. QED
  BY <1>1, <1>12, <1>13, <1>14, <1>15, <1>16, <1>17, <1>18, <1>19 DEF UserInv

\* The user types the next character of the line.
LEMMA TypeStep ==
    ASSUME NEW before, UserInv(before), Type
    PROVE  UserInv(before)'
<1>1. /\ Flow /\ Asked /\ Written /\ Keys(before) /\ Old /\ MenuKey /\ Passes /\ Executes
      /\ Searches(before) /\ BoundsInv'
  BY Situation, TypeBounds DEF UserInv
<1>2. PICK T, at, ask : T = line.text /\ at = line.at /\ ask = line.ask
  OBVIOUS
<1>3. /\ Stored \in Nat /\ Len(fifo) \in Nat /\ sofar \in Nat /\ Len(T) \in Nat
      /\ sofar = Stored + Len(fifo) /\ sofar < Len(T)
      /\ line \in Lines \cup {NoLine} /\ fifo \in Seq(Characters \cup {CR})
  BY <1>2, Situation DEF Type, TypeOK
<1>4. at \in Nat /\ ask \in {Nothing, Menu} \cup DOMAIN Keywords /\ ask \in Int
  <2>1. at \in Nat /\ ask \in {Nothing, Menu} \cup DOMAIN Keywords
    BY <1>2, <1>3, LineFacts
  <2>2. DOMAIN Keywords \subseteq Int /\ Nothing \in Int /\ Menu \in Int
    BY Constants DEF Nothing, Menu
  <2>. QED
    BY <2>1, <2>2
<1>5. /\ sofar' = sofar + 1
      /\ fifo' = Append(fifo, T[sofar + 1])
      /\ typed' = IF ask # Nothing /\ sofar + 1 = at THEN Append(typed, ask) ELSE typed
      /\ UNCHANGED <<UART0_buf, bufCount_0, serving, pc, keyword, first, j, fresh, line,
                     executed>>
  BY <1>2 DEF Type, mainVars
<1>6. /\ Len(fifo') = Len(fifo) + 1 /\ DOMAIN fifo' = 1 .. Len(fifo) + 1
      /\ \A i \in 1 .. Len(fifo) : fifo'[i] = fifo[i]
      /\ fifo'[Len(fifo) + 1] = T[sofar + 1]
  BY <1>3, <1>5
<1>7. Stored' = Stored
  <2>1. Stored' = (sofar + 1) - (Len(fifo) + 1)
    BY <1>5, <1>6 DEF Stored
  <2>. QED
    BY <1>3, <2>1
<1>8. /\ typed \in Seq(Int) /\ executed \in Seq(Int)
      /\ typed # executed => ask # Nothing /\ sofar >= at /\ typed = Append(executed, ask)
      /\ Done => Stored >= at
  BY <1>1, <1>2 DEF Asked
<1>9. Flow' /\ Passes' /\ Searches(before)'
  <2>1. \A i \in 1 .. Len(fifo) : fifo[i] = T[Stored + i]
    BY <1>1, <1>2, <1>3 DEF Flow
  <2>2. sofar + 1 = Stored + (Len(fifo) + 1)
    BY <1>3
  <2>3. \A i \in 1 .. Len(fifo) + 1 : fifo'[i] = T[Stored + i]
    <3>. SUFFICES ASSUME NEW i \in 1 .. Len(fifo) + 1 PROVE fifo'[i] = T[Stored + i]
      OBVIOUS
    <3>1. CASE i = Len(fifo) + 1
      BY <1>6, <2>2, <3>1
    <3>2. CASE i # Len(fifo) + 1
      <4>1. i \in 1 .. Len(fifo)
        BY <1>3, <3>2
      <4>. QED
        BY <1>6, <2>1, <4>1
    <3>. QED
      BY <3>1, <3>2
  <2>4. Len(fifo') # 0 /\ Len(fifo') <= sofar'
    BY <1>3, <1>5, <1>6
  <2>5. fifo' # <<>>
    BY <2>4
  <2>6. bufCount_0 = IF Stored = Len(T) THEN 0 ELSE Stored
    BY <1>1, <1>2 DEF Flow
  <2>7. Flow'
    BY <1>2, <1>5, <1>6, <1>7, <2>3, <2>4, <2>5, <2>6 DEF Flow
  <2>8. Stored # Len(T)
    BY <1>3
  <2>9. Passes'
    BY <1>2, <1>5, <1>7, <2>8 DEF Passes
  <2>10. Searches(before)'
    BY <1>1, <1>5, <1>7 DEF Searches, Matched
  <2>. QED
    BY <2>7, <2>9, <2>10
<1>10. CASE ask # Nothing /\ sofar + 1 = at
  <2>1. typed = executed /\ ~(sofar >= at)
    BY <1>3, <1>4, <1>8, <1>10
  <2>2. typed' = Append(executed, ask) /\ Append(executed, ask) # executed
    <3>1. Len(Append(executed, ask)) = Len(executed) + 1 /\ Len(executed) \in Nat
      BY <1>4, <1>8
    <3>2. Len(Append(executed, ask)) # Len(executed)
      BY <3>1
    <3>. QED
      BY <1>5, <1>10, <2>1, <3>2
  <2>3. ~Done /\ ~Done'
    BY <1>2, <1>5, <2>1, <2>2 DEF Done
  <2>4. Asked'
    <3>1. typed' \in Seq(Int)
      BY <1>4, <1>8, <2>2
    <3>2. sofar' >= at
      BY <1>4, <1>5, <1>10
    <3>. QED
      BY <1>2, <1>5, <1>8, <1>10, <2>2, <2>3, <3>1, <3>2 DEF Asked
  <2>5. pc # "execute" /\ pc # "reset"
    BY <1>1, <2>1, <2>3 DEF Executes
  <2>6. Executes'
    BY <1>1, <1>5, <2>3, <2>5 DEF Executes
  <2>. QED
    <3>2. Written' /\ Keys(before)' /\ Old' /\ MenuKey'
      BY <1>1, <1>5, <1>7, <2>3 DEF Written, Keys, Old, MenuKey
    <3>. QED
      BY <1>1, <1>9, <2>4, <2>6, <3>2 DEF UserInv
<1>11. CASE ~(ask # Nothing /\ sofar + 1 = at)
  <2>1. typed' = typed /\ (ask # Nothing => (sofar + 1 >= at <=> sofar >= at))
    BY <1>3, <1>4, <1>5, <1>11
  <2>2. Done' <=> Done
    BY <1>2, <1>5, <2>1 DEF Done
  <2>3. Asked'
    BY <1>1, <1>2, <1>5, <1>7, <2>1, <2>2 DEF Asked
  <2>4. Executes'
    BY <1>1, <1>5, <1>7, <2>1, <2>2 DEF Executes, NoKeys
  <2>. QED
    <3>2. Written' /\ Keys(before)' /\ Old' /\ MenuKey'
      BY <1>1, <1>5, <1>7, <2>2 DEF Written, Keys, Old, MenuKey
    <3>. QED
      BY <1>1, <1>9, <2>3, <2>4, <3>2 DEF UserInv
<1>. QED
  BY <1>10, <1>11

\* The user begins a line when the one before is over: of this only a head is left
\* that asked for nothing.
LEMMA BeginStep ==
    ASSUME Patient, NEW before \in Heads \cup {<<>>}, UserInv(before), BeginLine
    PROVE  PatientInv'
<1>1. /\ Flow /\ Asked /\ Written /\ Keys(before) /\ Old /\ MenuKey /\ Passes /\ Executes
      /\ BoundsInv'
  BY Situation, BeginBounds DEF UserInv
<1>2. PICK T, at, ask : T = line.text /\ at = line.at /\ ask = line.ask
  OBVIOUS
<1>3. /\ fifo = <<>> /\ pc = "loop" /\ fresh = FALSE /\ sofar = Len(T)
      /\ line' \in Lines /\ sofar' = 0
      /\ UNCHANGED <<UART0_buf, bufCount_0, fifo, serving, pc, keyword, first, j, fresh, typed,
                     executed>>
  BY <1>1, <1>2, Situation DEF BeginLine, Answered, mainVars, TypeOK
<1>4. /\ Len(fifo) = 0 /\ Len(T) \in Nat /\ Stored = Len(T) /\ Stored' = 0
      /\ Positions = 0 .. BufSize - 1 /\ BufSize \in Nat /\ BufSize >= 2
      /\ line \in Lines \cup {NoLine} /\ at \in Nat /\ at <= Len(T)
  <2>1. /\ Len(fifo) = 0 /\ Len(T) \in Nat
        /\ Positions = 0 .. BufSize - 1 /\ BufSize \in Nat /\ BufSize >= 2
        /\ line \in Lines \cup {NoLine}
    BY <1>2, <1>3, Situation
  <2>2. at \in Nat /\ at <= Len(T)
    BY <1>2, <2>1, LineFacts
  <2>3. Stored = sofar - 0 /\ Stored' = 0 - 0
    BY <1>3, <2>1 DEF Stored
  <2>. QED
    BY <1>3, <2>1, <2>2, <2>3
<1>5. ~serving /\ typed = executed /\ bufCount_0 = 0
  BY <1>1, <1>2, <1>3, <1>4 DEF Flow, Passes
<1>6. ~Done'
  <2>1. line'.ask # Nothing => line'.at >= 1 /\ line'.at \in Nat
    BY <1>3, LineShape
  <2>. QED
    BY <1>3, <2>1 DEF Done
<1>7. \E new \in Heads \cup {<<>>} : \A p \in Positions :
          Key(UART0_buf[p]) => p < Len(new) /\ UART0_buf[p] = new[p + 1]
  <2>1. CASE ask # Nothing
    <3>1. Done
      BY <1>2, <1>3, <1>4, <1>5, <2>1 DEF Done
    <3>2. NoKeys
      BY <1>1, <1>3, <3>1 DEF Executes
    <3>. QED
      BY <3>2 DEF NoKeys
  <2>2. CASE line = NoLine
    <3>1. Stored = 0
      BY <1>2, <1>4, <2>2 DEF NoLine
    <3>. QED
      BY <1>1, <1>4, <3>1 DEF Keys
  <2>3. CASE ask = Nothing /\ line \in Lines
    <3>1. PICK h \in Heads : \A i \in 1 .. Len(T) : Key(T[i]) => i <= Len(h) /\ T[i] = h[i]
      BY <1>2, <2>3, LineShape
    <3>2. Len(h) \in Nat
      BY ConsoleAssumption, LenProperties
    <3>3. Len(T) >= 1
      BY <1>2, <2>3, LineShape
    <3>4. ASSUME NEW p \in Positions, Key(UART0_buf[p])
          PROVE  p < Len(h) /\ UART0_buf[p] = h[p + 1]
      <4>1. p < Stored /\ UART0_buf[p] = T[p + 1]
        BY <1>1, <1>2, <1>4, <3>3, <3>4 DEF Keys
      <4>2. p + 1 \in 1 .. Len(T) /\ p \in Nat
        BY <1>4, <4>1
      <4>3. p + 1 <= Len(h) /\ T[p + 1] = h[p + 1]
        BY <3>1, <3>4, <4>1, <4>2
      <4>. QED
        BY <3>2, <4>1, <4>2, <4>3
    <3>. QED
      BY <3>4
  <2>. QED
    BY <1>4, <2>1, <2>2, <2>3
<1>8. PICK new \in Heads \cup {<<>>} : \A p \in Positions :
          Key(UART0_buf[p]) => p < Len(new) /\ UART0_buf[p] = new[p + 1]
  BY <1>7
<1>9. \A p \in Positions : Key(UART0_buf[p]) => \A q \in 0 .. p - 1 : UART0_buf[q] # NUL
  <2>. SUFFICES ASSUME NEW p \in Positions, Key(UART0_buf[p]), NEW q \in 0 .. p - 1
                PROVE  UART0_buf[q] # NUL
    OBVIOUS
  <2>1. CASE Stored = 0
    BY <1>1, <2>1 DEF Old
  <2>2. CASE Stored # 0
    <3>1. p < Stored
      BY <1>1, <2>2 DEF Keys
    <3>2. ~Done
      BY <1>1, <1>3 DEF Executes, NoKeys
    <3>3. q \in 0 .. Stored - 1 /\ q + 1 \in 1 .. Len(T)
      BY <1>4, <3>1
    <3>4. UART0_buf[q] = T[q + 1]
      BY <1>1, <1>2, <3>2, <3>3 DEF Written
    <3>. QED
      BY <1>2, <1>4, <3>3, <3>4, LineFacts
  <2>. QED
    BY <2>1, <2>2
<1>10. UART0_buf[0] # CR
  BY <1>5, MenuAsked
<1>11. Len(line'.text) # 0 /\ Len(line'.text) \in Nat
  BY <1>3, LineShape
<1>12. Flow' /\ Asked'
  <2>1. Flow'
    <3>1. Len(fifo') <= sofar'
      BY <1>3, <1>4
    <3>2. \A i \in DOMAIN fifo' : FALSE
      BY <1>3
    <3>. QED
      BY <1>3, <1>4, <1>5, <1>11, <3>1, <3>2 DEF Flow
  <2>. QED
    BY <1>1, <1>3, <1>5, <1>6, <2>1 DEF Asked
<1>13. Written' /\ Keys(new)' /\ Old' /\ MenuKey'
  <2>1. Written'
    BY <1>4 DEF Written
  <2>2. Keys(new)'
    BY <1>3, <1>4, <1>8 DEF Keys
  <2>. QED
    BY <1>3, <1>5, <1>9, <1>10, <2>1, <2>2 DEF Old, MenuKey
<1>14. Passes' /\ Executes' /\ Searches(new)'
  BY <1>3, <1>4, <1>6, <1>11 DEF Passes, Executes, Searches
<1>15. UserInv(new)'
  BY <1>1, <1>12, <1>13, <1>14 DEF UserInv
<1>. QED
  BY <1>8, <1>15 DEF PatientInv

\* What a step of main keeps that writes neither the buffer nor a history.
LEMMA QuietStep ==
    ASSUME NEW before, UserInv(before), ~serving,
           UNCHANGED <<UART0_buf, bufCount_0, fifo, serving, line, sofar, typed, executed>>
    PROVE  /\ Stored' = Stored /\ (Done' <=> Done)
           /\ Flow' /\ Asked' /\ Written'
           /\ Keys(before)' /\ Old' /\ MenuKey'
<1>1. Flow /\ Asked /\ Written /\ Keys(before) /\ Old /\ MenuKey
  BY DEF UserInv
<1>2. Stored' = Stored /\ (Done' <=> Done)
  BY DEF Stored, Done
<1>3. Flow' /\ Asked' /\ Written'
  BY <1>1, <1>2 DEF Flow, Asked, Written
<1>4. Keys(before)' /\ Old' /\ MenuKey'
  BY <1>1, <1>2 DEF Keys, Old, MenuKey
<1>. QED
  BY <1>2, <1>3, <1>4

\* Before it is executed, what the line asks for is written in the buffer.
LEMMA Unexecuted ==
    ASSUME NEW before, UserInv(before), typed # executed
    PROVE  /\ ~Done /\ line.ask # Nothing /\ sofar >= line.at
           /\ typed = Append(executed, line.ask)
           /\ \A q \in 0 .. Stored - 1 : UART0_buf[q] = line.text[q + 1] /\ UART0_buf[q] # NUL
<1>1. /\ ~Done /\ line.ask # Nothing /\ sofar >= line.at
      /\ typed = Append(executed, line.ask)
  BY DEF UserInv, Asked, Done
<1>2. ASSUME NEW q \in 0 .. Stored - 1
      PROVE  UART0_buf[q] = line.text[q + 1] /\ UART0_buf[q] # NUL
  <2>1. UART0_buf[q] = line.text[q + 1]
    BY <1>1 DEF UserInv, Written
  <2>2. q + 1 \in 1 .. Len(line.text)
    <3>1. /\ Stored \in Nat /\ Len(fifo) \in Nat /\ Len(line.text) \in Nat
          /\ sofar = Stored + Len(fifo) /\ sofar <= Len(line.text)
      BY Situation
    <3>. QED
      BY <3>1
  <2>. QED
    BY <2>1, <2>2, Situation, LineFacts
<1>. QED
  BY <1>1, <1>2

\* debug() begins: a command that is in the buffer is not overlooked.
LEMMA EnterStep ==
    ASSUME NEW before, UserInv(before), ~serving, Enter
    PROVE  UserInv(before)'
<1>1. BoundsInv'
  BY Situation, DebugBounds DEF debug
<1>2. /\ pc = "loop" /\ fresh' = FALSE
      /\ pc' \in {"loop", "menu", "search"}
      /\ pc' = "loop" => UART0_buf[0] = NUL
      /\ pc' = "menu" <=> UART0_buf[0] = CR
      /\ keyword' = 1 /\ first' = 0 /\ j' = 1
      /\ UNCHANGED <<UART0_buf, bufCount_0, fifo, serving, line, sofar, typed, executed>>
  BY Constants DEF Enter, userVars
<1>3. /\ Stored' = Stored /\ (Done' <=> Done)
      /\ Flow' /\ Asked' /\ Written' /\ Keys(before)' /\ Old' /\ MenuKey'
  BY <1>2, QuietStep
<1>4. ASSUME Stored = Len(line.text), typed # executed
      PROVE  UART0_buf[0] # NUL /\ (UART0_buf[0] = CR \/ line.ask \in DOMAIN Keywords)
  <2>1. /\ line.ask # Nothing
        /\ \A q \in 0 .. Stored - 1 : UART0_buf[q] = line.text[q + 1] /\ UART0_buf[q] # NUL
    BY <1>4, Unexecuted
  <2>2. /\ Len(line.text) >= 1 /\ Len(line.text) \in Nat
        /\ line.ask \in {Nothing, Menu} \cup DOMAIN Keywords
        /\ line.ask = Menu => Len(line.text) = 1
        /\ \A i \in 1 .. Len(line.text) : line.text[i] = CR <=> i = Len(line.text)
    BY <2>1, Situation, LineFacts
  <2>3. 0 \in 0 .. Stored - 1
    BY <1>4, <2>2
  <2>4. UART0_buf[0] = line.text[1] /\ UART0_buf[0] # NUL
    BY <2>1, <2>3
  <2>. QED
    BY <2>1, <2>2, <2>4
<1>5. Passes'
  <2>1. ASSUME Stored = Len(line.text), typed # executed, line.ask \in DOMAIN Keywords
        PROVE  1 <= line.ask /\ (1 = line.ask => 0 + Len(Keywords[1]) <= line.at)
    BY <2>1, Situation, LineFacts, Constants, KeywordShape
  <2>. QED
    BY <1>2, <1>3, <1>4, <2>1 DEF Passes
<1>6. Executes'
  BY <1>2, <1>3 DEF UserInv, Executes, NoKeys
<1>7. Searches(before)'
  <2>1. (\E split \in 0 .. first + j - 1 :
            (Stored = 0 => split = first + j - 1) /\ Matched(split, before))'
    <3>1. (Matched(0, before))'
      BY <1>2 DEF Matched
    <3>2. 0 \in 0 .. first' + j' - 1 /\ first' + j' - 1 = 0
      BY <1>2
    <3>. QED
      BY <3>1, <3>2
  <2>. QED
    BY <2>1 DEF Searches
<1>. QED
  BY <1>1, <1>3, <1>5, <1>6, <1>7 DEF UserInv

\* The menu is shown for the line that asks for it, and no other.
LEMMA MenuStep ==
    ASSUME NEW before, UserInv(before), ~serving, ShowMenu
    PROVE  UserInv(before)'
<1>1. BoundsInv'
  BY Situation, DebugBounds DEF debug
<1>2. /\ pc = "menu" /\ pc' = "search"
      /\ UART0_buf' = [UART0_buf EXCEPT ![0] = NUL] /\ executed' = Append(executed, Menu)
      /\ UNCHANGED <<bufCount_0, fifo, serving, keyword, first, j, fresh, line, sofar, typed>>
  BY DEF ShowMenu, Goto, userVars
<1>3. /\ line.ask = Menu /\ line.at = 1 /\ Stored = 1 /\ sofar = 1 /\ Menu # Nothing
      /\ typed = Append(executed, Menu)
  BY <1>2, MenuAsked, Constants DEF UserInv, Executes
<1>4. Flow /\ Asked /\ Keys(before) /\ AtFirst
  BY DEF UserInv, BoundsInv
<1>5. /\ Stored' = Stored /\ Done' /\ typed' = executed'
  BY <1>2, <1>3 DEF Stored, Done
<1>6. Flow' /\ Asked' /\ Written'
  BY <1>2, <1>3, <1>4, <1>5 DEF Flow, Asked, Written
<1>7. \A p \in Positions : UART0_buf'[p] = IF p = 0 THEN NUL ELSE UART0_buf[p]
  BY <1>2, Situation
<1>8. NoKeys'
  <2>. SUFFICES ASSUME NEW p \in Positions, Key(UART0_buf'[p]) PROVE FALSE
    BY DEF NoKeys
  <2>1. p # 0 /\ Key(UART0_buf[p])
    BY <1>7, NoKey
  <2>2. p < 1
    BY <1>3, <1>4, <2>1 DEF Keys
  <2>. QED
    BY <2>1, <2>2, Constants
<1>9. Keys(before)' /\ Old' /\ MenuKey'
  <2>1. UART0_buf'[0] # CR
    BY <1>7, Constants
  <2>. QED
    BY <1>3, <1>5, <1>8, <2>1 DEF Keys, Old, MenuKey, NoKeys
<1>10. Passes' /\ Executes'
  BY <1>2, <1>5, <1>8 DEF Passes, Executes
<1>11. Searches(before)'
  <2>1. j = 1 /\ first \in Nat
    BY <1>2, <1>4, Situation, Numbers DEF AtFirst
  <2>2. (Matched(first, before))'
    BY <1>2, <2>1 DEF Matched
  <2>3. first' + j' - 1 = first /\ first \in 0 .. first
    BY <1>2, <2>1
  <2>4. \E split \in 0 .. first' + j' - 1 :
            (Stored' = 0 => split = first' + j' - 1) /\ Matched(split, before)'
    BY <1>2, <2>2, <2>3
  <2>. QED
    BY <2>4 DEF Searches
<1>. QED
  BY <1>1, <1>6, <1>9, <1>10, <1>11 DEF UserInv

\* The next keyword, or the end: what the line asks for is still to be searched for.
LEMMA NextStep ==
    ASSUME NEW before, UserInv(before), BoundsInv', ~serving, NextKeyword, Done => NoKeys,
           ~fresh /\ Stored = Len(line.text) /\ typed # executed =>
               line.ask \in DOMAIN Keywords /\ keyword < line.ask,
           UNCHANGED <<UART0_buf, bufCount_0, fifo, serving, fresh, line, sofar, typed, executed>>
    PROVE  UserInv(before)'
<1>1. /\ Stored' = Stored /\ (Done' <=> Done)
      /\ Flow' /\ Asked' /\ Written' /\ Keys(before)' /\ Old' /\ MenuKey'
  BY QuietStep
<1>2. /\ keyword \in Nat /\ Len(Keywords) \in Nat /\ DOMAIN Keywords = 1 .. Len(Keywords)
      /\ keyword <= Len(Keywords)
  BY Situation, Numbers, Constants
<1>3. CASE keyword < Len(Keywords)
  <2>1. pc' = "search" /\ keyword' = keyword + 1 /\ first' = 0 /\ j' = 1
    BY <1>3 DEF NextKeyword
  <2>2. Passes'
    <3>1. ASSUME ~fresh, Stored = Len(line.text), typed # executed
          PROVE  /\ line.ask \in DOMAIN Keywords /\ keyword + 1 <= line.ask
                 /\ keyword + 1 = line.ask => 0 + Len(Keywords[keyword + 1]) <= line.at
      <4>1. line.ask \in DOMAIN Keywords /\ keyword < line.ask
        BY <3>1
      <4>2. Len(Keywords[line.ask]) <= line.at /\ Len(Keywords[line.ask]) \in Nat
        BY <4>1, Situation, LineFacts, KeywordShape
      <4>. QED
        BY <1>2, <4>1, <4>2
    <3>. QED
      BY <1>1, <2>1, <3>1 DEF Passes
  <2>3. Executes'
    BY <1>1, <2>1 DEF Executes, NoKeys
  <2>4. Searches(before)'
    <3>1. (Matched(0, before))'
      BY <2>1 DEF Matched
    <3>2. 0 \in 0 .. first' + j' - 1 /\ first' + j' - 1 = 0
      BY <2>1
    <3>3. \E split \in 0 .. first' + j' - 1 :
              (Stored' = 0 => split = first' + j' - 1) /\ Matched(split, before)'
      BY <3>1, <3>2
    <3>. QED
      BY <3>3 DEF Searches
  <2>. QED
    BY <1>1, <2>2, <2>3, <2>4 DEF UserInv
<1>4. CASE ~(keyword < Len(Keywords))
  <2>1. pc' = "loop"
    BY <1>4 DEF NextKeyword
  <2>2. ~fresh /\ Stored = Len(line.text) => typed = executed
    BY <1>2, <1>4
  <2>3. Passes' /\ Executes' /\ Searches(before)'
    BY <1>1, <2>1, <2>2 DEF Passes, Executes, Searches, NoKeys
  <2>. QED
    BY <1>1, <2>3 DEF UserInv
<1>. QED
  BY <1>3, <1>4

\* Where a keyword that was searched for to its end is not overlooked: the place
\* that is compared is one where the line is written.
LEMMA InTheWord ==
    ASSUME NEW before, UserInv(before), pc = "search",
           ~fresh, Stored = Len(line.text), typed # executed, keyword = line.ask
    PROVE  /\ UART0_buf[first + j - 1] # NUL
           /\ first + Len(Keywords[keyword]) <= line.at
           /\ first + Len(Keywords[keyword]) = line.at =>
                  UART0_buf[first + j - 1] = Keywords[keyword][j]
<1>. DEFINE size == Len(Keywords[keyword])
            at == line.at
            len == Len(line.text)
<1>1. /\ keyword \in DOMAIN Keywords /\ size \in Nat /\ first \in Nat /\ j \in 1 .. size
      /\ len \in Nat /\ line \in Lines \cup {NoLine}
  BY Situation, Numbers, KeywordShape
<1>2. first + size <= at
  BY DEF UserInv, Passes
<1>3. /\ at \in Nat /\ at <= len
      /\ \A p \in 1 .. size : line.text[at - size + p] = Keywords[keyword][p]
  BY <1>1, LineFacts
<1>4. \A q \in 0 .. Stored - 1 : UART0_buf[q] = line.text[q + 1] /\ UART0_buf[q] # NUL
  BY Unexecuted
<1>. HIDE DEF size, at, len
<1>5. first + j - 1 \in 0 .. len - 1
  BY <1>1, <1>2, <1>3
<1>6. /\ UART0_buf[first + j - 1] # NUL
      /\ UART0_buf[first + j - 1] = line.text[(first + j - 1) + 1]
  BY <1>4, <1>5 DEF len
<1>7. ASSUME first + size = at PROVE UART0_buf[first + j - 1] = Keywords[keyword][j]
  <2>1. at - size + j = (first + j - 1) + 1
    BY <1>1, <1>3, <1>7
  <2>. QED
    BY <1>1, <1>3, <1>6, <2>1
<1>. QED
  BY <1>2, <1>6, <1>7 DEF size, at

\* One more character matches: it is of this line, or in its place while the line is
\* empty.
LEMMA Extended ==
    ASSUME NEW before, UserInv(before), pc = "search",
           UART0_buf[first + j - 1] = Keywords[keyword][j]
    PROVE  /\ Key(UART0_buf[first + j - 1]) /\ (Stored # 0 => first + j <= Stored)
           /\ \E split \in 0 .. first + j :
                 /\ Stored = 0 => split = first + j
                 /\ \A i \in 1 .. j :
                       \/ /\ first + i <= split /\ first + i <= Len(before)
                          /\ Keywords[keyword][i] = before[first + i]
                       \/ /\ split < first + i /\ first + i <= Stored
                          /\ Keywords[keyword][i] = line.text[first + i]
<1>1. /\ keyword \in DOMAIN Keywords /\ first \in Nat /\ j \in Nat /\ j >= 1
      /\ j \in 1 .. Len(Keywords[keyword]) /\ first + j - 1 \in Positions
      /\ Stored \in Nat
  BY Situation, Numbers, KeywordShape DEF TypeOK
<1>2. Key(UART0_buf[first + j - 1])
  BY <1>1, KeywordShape
<1>3. /\ Stored # 0 => first + j <= Stored /\ Keywords[keyword][j] = line.text[first + j]
      /\ Stored = 0 => first + j <= Len(before) /\ Keywords[keyword][j] = before[first + j]
  <2>1. \/ first + j - 1 < Stored /\ UART0_buf[first + j - 1] = line.text[(first + j - 1) + 1]
        \/ /\ Stored = 0 /\ first + j - 1 < Len(before)
           /\ UART0_buf[first + j - 1] = before[(first + j - 1) + 1]
    BY <1>1, <1>2 DEF UserInv, Keys
  <2>2. (first + j - 1) + 1 = first + j
    BY <1>1
  <2>3. CASE Stored # 0
    BY <1>1, <2>1, <2>2, <2>3
  <2>4. CASE Stored = 0
    <3>1. /\ first + j - 1 < Len(before)
          /\ Keywords[keyword][j] = before[first + j]
      BY <1>1, <2>1, <2>2, <2>4
    <3>. QED
      BY <1>1, <2>4, <3>1
  <2>. QED
    BY <2>3, <2>4
<1>4. PICK split \in 0 .. first + j - 1 :
          (Stored = 0 => split = first + j - 1) /\ Matched(split, before)
  BY DEF UserInv, Searches
<1>5. CASE Stored # 0
  <2>1. ASSUME NEW i \in 1 .. j
        PROVE  \/ /\ first + i <= split /\ first + i <= Len(before)
                  /\ Keywords[keyword][i] = before[first + i]
               \/ /\ split < first + i /\ first + i <= Stored
                  /\ Keywords[keyword][i] = line.text[first + i]
    <3>1. CASE i = j
      BY <1>1, <1>3, <1>5, <3>1
    <3>2. CASE i # j
      <4>1. i \in 1 .. j - 1
        BY <1>1, <3>2
      <4>. QED
        BY <1>4, <4>1 DEF Matched
    <3>. QED
      BY <3>1, <3>2
  <2>2. split \in 0 .. first + j
    BY <1>1
  <2>. QED
    BY <1>2, <1>3, <1>5, <2>1, <2>2
<1>6. CASE Stored = 0
  <2>1. ASSUME NEW i \in 1 .. j
        PROVE  /\ first + i <= first + j /\ first + i <= Len(before)
               /\ Keywords[keyword][i] = before[first + i]
    <3>1. CASE i = j
      BY <1>1, <1>3, <1>6, <3>1
    <3>2. CASE i # j
      <4>1. i \in 1 .. j - 1 /\ first + i \in Nat /\ first + i >= 1 /\ first + i <= first + j
        BY <1>1, <3>2
      <4>2. ~(first + i <= Stored)
        BY <1>6, <4>1
      <4>. QED
        BY <1>4, <4>1, <4>2 DEF Matched
    <3>. QED
      BY <3>1, <3>2
  <2>2. first + j \in 0 .. first + j
    BY <1>1
  <2>. QED
    BY <1>2, <1>3, <1>6, <2>1, <2>2
<1>. QED
  BY <1>5, <1>6

\* The search finds what the line asks for, where it is typed in full, and nothing
\* else, whatever of the line before it has read.
LEMMA SearchStep ==
    ASSUME NEW before \in Heads \cup {<<>>}, UserInv(before), ~serving, SearchIndexOf
    PROVE  UserInv(before)'
<1>. DEFINE c == UART0_buf[first + j - 1]
            str == Keywords[keyword]
<1>1. BoundsInv'
  BY Situation, DebugBounds DEF debug
<1>2. /\ pc = "search"
      /\ UNCHANGED <<UART0_buf, bufCount_0, fifo, serving, fresh, line, sofar, typed, executed>>
      /\ \/ c = NUL /\ NextKeyword
         \/ c = str[j] /\ j < Len(str) /\ j' = j + 1 /\ UNCHANGED <<pc, keyword, first>>
         \/ /\ c = str[j] /\ j = Len(str)
            /\ pc' = "execute" /\ UNCHANGED <<keyword, first, j>>
         \/ c # NUL /\ c # str[j] /\ first' = first + 1 /\ j' = 1 /\ UNCHANGED <<pc, keyword>>
  BY DEF SearchIndexOf, userVars, Goto
<1>3. /\ Stored' = Stored /\ (Done' <=> Done)
      /\ Flow' /\ Asked' /\ Written' /\ Keys(before)' /\ Old' /\ MenuKey'
  BY <1>2, QuietStep
<1>4. /\ keyword \in DOMAIN Keywords /\ first \in Nat /\ j \in Nat /\ j >= 1
      /\ Len(str) \in Nat /\ j <= Len(str) /\ first <= BufSize - 1
      /\ first + j - 1 \in Positions /\ Positions = 0 .. BufSize - 1 /\ BufSize \in Nat
      /\ Stored \in Nat
  BY Situation, Numbers, KeywordShape DEF TypeOK
<1>5. (Done => NoKeys) /\ Passes /\ Executes
  BY <1>2 DEF UserInv, Executes
<1>6. CASE c = NUL /\ NextKeyword
  <2>1. ASSUME ~fresh, Stored = Len(line.text), typed # executed
        PROVE  line.ask \in DOMAIN Keywords /\ keyword < line.ask
    <3>1. line.ask \in DOMAIN Keywords /\ keyword <= line.ask
      BY <1>2, <1>5, <2>1 DEF Passes
    <3>2. keyword # line.ask
      BY <1>2, <1>6, <2>1, InTheWord
    <3>. QED
      BY <1>4, <3>1, <3>2, Constants
  <2>. QED
    BY <1>1, <1>2, <1>5, <1>6, <2>1, NextStep
<1>7. CASE c = str[j] /\ j < Len(str) /\ j' = j + 1 /\ UNCHANGED <<pc, keyword, first>>
  <2>1. Passes' /\ Executes'
    BY <1>2, <1>3, <1>5, <1>7 DEF Passes, Executes, NoKeys
  <2>2. PICK split \in 0 .. first + j :
            /\ Stored = 0 => split = first + j
            /\ \A i \in 1 .. j :
                  \/ /\ first + i <= split /\ first + i <= Len(before)
                     /\ Keywords[keyword][i] = before[first + i]
                  \/ /\ split < first + i /\ first + i <= Stored
                     /\ Keywords[keyword][i] = line.text[first + i]
    BY <1>2, <1>7, Extended
  <2>3. (j + 1) - 1 = j /\ first + (j + 1) - 1 = first + j
    BY <1>4
  <2>4. (Matched(split, before))'
    BY <1>2, <1>3, <1>7, <2>2, <2>3 DEF Matched
  <2>5. split \in 0 .. first' + j' - 1 /\ (Stored' = 0 => split = first' + j' - 1)
    BY <1>3, <1>7, <2>2, <2>3
  <2>6. \E d \in 0 .. first' + j' - 1 :
            (Stored' = 0 => d = first' + j' - 1) /\ Matched(d, before)'
    BY <2>4, <2>5
  <2>. QED
    BY <1>1, <1>3, <2>1, <2>6 DEF UserInv, Searches
<1>8. CASE /\ c = str[j] /\ j = Len(str)
           /\ pc' = "execute" /\ UNCHANGED <<keyword, first, j>>
  <2>1. PICK split \in 0 .. first + j :
            /\ Stored = 0 => split = first + j
            /\ \A i \in 1 .. j :
                  \/ /\ first + i <= split /\ first + i <= Len(before)
                     /\ Keywords[keyword][i] = before[first + i]
                  \/ /\ split < first + i /\ first + i <= Stored
                     /\ Keywords[keyword][i] = line.text[first + i]
    BY <1>2, <1>8, Extended
  <2>2. Key(c) /\ (Stored # 0 => first + j <= Stored)
    BY <1>2, <1>8, Extended
  <2>3. first \in 0 .. BufSize /\ split \in 0 .. BufSize
    BY <1>4
  <2>4. Stored # 0
    <3>. SUFFICES ASSUME Stored = 0 PROVE FALSE
      OBVIOUS
    <3>1. \A p \in 1 .. Len(Keywords[keyword]) :
              first + p <= Len(before) /\ Keywords[keyword][p] = before[first + p]
      <4>. SUFFICES ASSUME NEW p \in 1 .. Len(Keywords[keyword])
                    PROVE  first + p <= Len(before) /\ Keywords[keyword][p] = before[first + p]
        OBVIOUS
      <4>1. ~(first + p <= Stored)
        BY <1>4
      <4>. QED
        BY <1>8, <2>1, <4>1
    <3>. QED
      BY <1>4, <2>3, <3>1, NotInHead
  <2>5. line \in Lines /\ Stored <= Len(line.text)
    <3>1. /\ sofar \in Nat /\ Len(fifo) \in Nat /\ Len(line.text) \in Nat
          /\ sofar = Stored + Len(fifo) /\ sofar <= Len(line.text)
          /\ line \in Lines \cup {NoLine}
      BY Situation
    <3>2. Len(line.text) # 0
      BY <1>4, <2>4, <3>1
    <3>3. Len(NoLine.text) = 0
      BY DEF NoLine
    <3>. QED
      BY <1>4, <3>1, <3>2, <3>3
  <2>6. line.ask = keyword /\ line.at = first + Len(Keywords[keyword])
    <3>1. Mixed(keyword, first, split, before, line.text)
      <4>. SUFFICES ASSUME NEW p \in 1 .. Len(Keywords[keyword])
                    PROVE  \/ /\ first + p <= split /\ first + p <= Len(before)
                              /\ Keywords[keyword][p] = before[first + p]
                           \/ /\ split < first + p /\ first + p <= Len(line.text)
                              /\ Keywords[keyword][p] = line.text[first + p]
        BY DEF Mixed
      <4>1. first + p <= Stored => first + p <= Len(line.text)
        <5>1. Len(line.text) \in Nat /\ p \in Nat
          BY Situation
        <5>. QED
          BY <1>4, <2>5, <5>1
      <4>. QED
        BY <1>8, <2>1, <4>1
    <3>2. keyword \in DOMAIN Keywords /\ line \in Lines
      BY <1>4, <2>5
    <3>. QED
      BY <2>3, <3>1, <3>2, FoundIsAsked
  <2>7. Stored >= line.at /\ sofar >= line.at
    <3>1. Stored >= line.at
      BY <1>4, <1>8, <2>2, <2>4, <2>6
    <3>2. sofar \in Nat /\ Len(fifo) \in Nat /\ sofar = Stored + Len(fifo)
      BY Situation
    <3>. QED
      BY <1>4, <2>6, <3>1, <3>2
  <2>8. ~Done
    BY <1>4, <1>5, <2>2 DEF NoKeys
  <2>9. typed # executed
    BY <1>4, <2>6, <2>7, <2>8, Constants DEF Done
  <2>10. Passes' /\ Executes' /\ Searches(before)'
    BY <1>2, <1>3, <1>8, <2>6, <2>7, <2>8, <2>9 DEF Passes, Executes, Searches
  <2>. QED
    BY <1>1, <1>3, <2>10 DEF UserInv
<1>9. CASE c # NUL /\ c # str[j] /\ first' = first + 1 /\ j' = 1 /\ UNCHANGED <<pc, keyword>>
  <2>1. Passes'
    <3>1. ASSUME ~fresh, Stored = Len(line.text), typed # executed
          PROVE  /\ line.ask \in DOMAIN Keywords /\ keyword <= line.ask
                 /\ keyword = line.ask => first + 1 + Len(Keywords[keyword]) <= line.at
      <4>1. line.ask \in DOMAIN Keywords /\ keyword <= line.ask
        BY <1>2, <1>5, <3>1 DEF Passes
      <4>2. ASSUME keyword = line.ask
            PROVE  first + 1 + Len(Keywords[keyword]) <= line.at
        <5>1. /\ first + Len(Keywords[keyword]) <= line.at
              /\ first + Len(Keywords[keyword]) # line.at
          BY <1>2, <1>9, <3>1, <4>2, InTheWord
        <5>2. line.at \in Nat
          BY Situation, LineFacts
        <5>. QED
          BY <1>4, <5>1, <5>2
      <4>. QED
        BY <4>1, <4>2
    <3>. QED
      BY <1>2, <1>3, <1>9, <3>1 DEF Passes
  <2>2. Executes'
    BY <1>2, <1>3, <1>5, <1>9 DEF Executes, NoKeys
  <2>3. (Matched(first + 1, before))'
    BY <1>9 DEF Matched
  <2>4. ASSUME NEW d, d = first + 1 PROVE (Matched(d, before))'
    BY <1>9 DEF Matched
  <2>5. first + 1 \in 0 .. first' + j' - 1 /\ first + 1 = first' + j' - 1
    BY <1>4, <1>9
  <2>6. \E d \in 0 .. first' + j' - 1 :
            (Stored' = 0 => d = first' + j' - 1) /\ Matched(d, before)'
    BY <2>4, <2>5
  <2>. QED
    BY <1>1, <1>3, <2>1, <2>2, <2>6 DEF UserInv, Searches
<1>. QED
  BY <1>2, <1>6, <1>7, <1>8, <1>9

\* A command is executed that the line asks for and that was not executed.
LEMMA ExecuteStep ==
    ASSUME NEW before, UserInv(before), ~serving, Execute
    PROVE  UserInv(before)'
<1>1. BoundsInv'
  BY Situation, DebugBounds DEF debug
<1>2. /\ pc = "execute" /\ pc' = "reset" /\ first' = 0 /\ j' = 1
      /\ executed' = Append(executed, keyword)
      /\ UNCHANGED <<UART0_buf, bufCount_0, fifo, serving, keyword, fresh, line, sofar, typed>>
  BY DEF Execute, userVars
<1>3. line.ask = keyword /\ Stored >= line.at /\ typed # executed
  BY <1>2 DEF UserInv, Executes
<1>4. /\ ~Done /\ line.ask # Nothing /\ sofar >= line.at
      /\ typed = Append(executed, line.ask)
      /\ \A q \in 0 .. Stored - 1 : UART0_buf[q] = line.text[q + 1] /\ UART0_buf[q] # NUL
  BY <1>3, Unexecuted
<1>5. Flow /\ Asked /\ Keys(before) /\ Old
  BY DEF UserInv
<1>6. Stored' = Stored /\ Done' /\ typed' = executed'
  BY <1>2, <1>3, <1>4 DEF Stored, Done
<1>7. Flow' /\ Asked' /\ Written'
  BY <1>2, <1>3, <1>5, <1>6 DEF Flow, Asked, Written
<1>8. UART0_buf[0] # CR
  BY <1>3, MenuAsked, Situation, Constants DEF TypeOK
<1>9. Keys(before)' /\ Old' /\ MenuKey'
  BY <1>2, <1>5, <1>6, <1>8 DEF Keys, Old, MenuKey
<1>10. Passes' /\ Searches(before)'
  BY <1>2 DEF Passes, Searches
<1>11. Stored # 0 /\ Stored \in Nat
  BY <1>3, <1>4, Situation, LineFacts
<1>12. ASSUME NEW p \in Positions, Key(UART0_buf[p])
       PROVE  p >= 0 /\ \A q \in 0 .. p - 1 : UART0_buf[q] # NUL
  <2>1. p \in Nat
    BY Constants
  <2>2. p < Stored
    BY <1>5, <1>11, <1>12 DEF Keys
  <2>3. \A q \in 0 .. p - 1 : q \in 0 .. Stored - 1
    BY <1>11, <2>1, <2>2
  <2>. QED
    BY <1>4, <2>1, <2>3
<1>13. Executes'
  BY <1>2, <1>6, <1>12 DEF Executes
<1>. QED
  BY <1>1, <1>7, <1>9, <1>10, <1>13 DEF UserInv

\* Reset stops at the first NUL: behind it is nothing of a keyword.
LEMMA ResetStep ==
    ASSUME NEW before, UserInv(before), ~serving, Reset
    PROVE  UserInv(before)'
<1>1. BoundsInv'
  BY Situation, DebugBounds DEF debug
<1>2. /\ pc = "reset"
      /\ UNCHANGED <<bufCount_0, fifo, serving, fresh, line, sofar, typed, executed>>
      /\ \/ UART0_buf[first] = NUL /\ NextKeyword /\ UNCHANGED UART0_buf
         \/ /\ UART0_buf[first] # NUL
            /\ UART0_buf' = [UART0_buf EXCEPT ![first] = NUL]
            /\ first' = first + 1
            /\ UNCHANGED <<pc, keyword, j>>
  BY DEF Reset, userVars
<1>3. /\ Done
      /\ \A p \in Positions :
            Key(UART0_buf[p]) => p >= first /\ (\A q \in first .. p - 1 : UART0_buf[q] # NUL)
  BY <1>2 DEF UserInv, Executes
<1>4. /\ first \in Nat /\ first \in Positions /\ Stored \in Nat /\ Stored # 0
      /\ Positions = 0 .. BufSize - 1 /\ BufSize \in Nat
      /\ UART0_buf \in [Positions -> Characters \cup {NUL, CR}]
  <2>1. /\ Stored \in Nat /\ Stored >= 1
        /\ Positions = 0 .. BufSize - 1 /\ BufSize \in Nat
        /\ UART0_buf \in [Positions -> Characters \cup {NUL, CR}]
    BY <1>3, Situation
  <2>2. first \in Nat /\ first \in Positions
    BY Situation, Numbers DEF TypeOK
  <2>. QED
    BY <2>1, <2>2
<1>5. CASE UART0_buf[first] = NUL /\ NextKeyword /\ UNCHANGED UART0_buf
  <2>1. NoKeys
    <3>. SUFFICES ASSUME NEW p \in Positions, Key(UART0_buf[p]) PROVE FALSE
      BY DEF NoKeys
    <3>1. p >= first /\ (\A q \in first .. p - 1 : UART0_buf[q] # NUL)
      BY <1>3
    <3>2. p # first
      BY <1>5, NoKey
    <3>3. first \in first .. p - 1
      BY <1>4, <3>1, <3>2
    <3>. QED
      BY <1>5, <3>1, <3>3
  <2>2. typed = executed
    BY <1>3 DEF Done
  <2>. QED
    BY <1>1, <1>2, <1>5, <2>1, <2>2, NextStep
<1>6. CASE /\ UART0_buf[first] # NUL
           /\ UART0_buf' = [UART0_buf EXCEPT ![first] = NUL]
           /\ first' = first + 1
           /\ UNCHANGED <<pc, keyword, j>>
  <2>1. \A p \in Positions : UART0_buf'[p] = IF p = first THEN NUL ELSE UART0_buf[p]
    BY <1>4, <1>6
  <2>2. Stored' = Stored /\ Done'
    BY <1>2, <1>3 DEF Stored, Done
  <2>3. Flow /\ Asked /\ Keys(before)
    BY DEF UserInv
  <2>4. Flow' /\ Asked' /\ Written'
    BY <1>2, <1>3, <2>2, <2>3 DEF Flow, Asked, Written
  <2>5. \A p \in Positions : Key(UART0_buf'[p]) => p # first /\ UART0_buf'[p] = UART0_buf[p]
    BY <2>1, NoKey
  <2>6. Keys(before)' /\ Old'
    BY <1>2, <1>4, <2>2, <2>3, <2>5 DEF Keys, Old
  <2>7. UART0_buf'[0] # CR
    <3>1. UART0_buf[0] # CR
      BY <1>3, MenuAsked
    <3>2. 0 \in Positions
      BY <1>4
    <3>. QED
      BY <2>1, <3>1, <3>2, Constants
  <2>8. MenuKey' /\ Passes' /\ Searches(before)'
    BY <1>2, <1>6, <2>7 DEF MenuKey, Passes, Searches
  <2>9. ASSUME NEW p \in Positions, Key(UART0_buf'[p])
        PROVE  p >= first + 1 /\ \A q \in first + 1 .. p - 1 : UART0_buf'[q] # NUL
    <3>1. p # first /\ Key(UART0_buf[p])
      BY <2>5, <2>9
    <3>2. p >= first /\ (\A q \in first .. p - 1 : UART0_buf[q] # NUL)
      BY <1>3, <3>1
    <3>3. p >= first + 1 /\ p \in Nat
      BY <1>4, <3>1, <3>2
    <3>4. ASSUME NEW q \in first + 1 .. p - 1 PROVE UART0_buf'[q] # NUL
      <4>1. q \in first .. p - 1 /\ q \in Positions /\ q # first
        BY <1>4, <3>3
      <4>. QED
        BY <2>1, <3>2, <4>1
    <3>. QED
      BY <3>3, <3>4
  <2>10. Executes'
    BY <1>2, <1>6, <2>2, <2>9 DEF Executes
  <2>. QED
    BY <1>1, <2>4, <2>6, <2>8, <2>10 DEF UserInv
<1>. QED
  BY <1>2, <1>5, <1>6

\* At the start the buffer is empty and nothing is typed.
LEMMA InitUser == Init => PatientInv
<1>. SUFFICES ASSUME Init PROVE UserInv(<<>>)
  BY DEF PatientInv
<1>1. BoundsInv
  BY InitBounds
<1>2. /\ UART0_buf = [p \in Positions |-> NUL] /\ bufCount_0 = 0 /\ fifo = <<>>
      /\ serving = FALSE /\ pc = "loop" /\ line = NoLine /\ sofar = 0
      /\ typed = <<>> /\ executed = <<>>
  BY DEF Init
<1>3. /\ Len(fifo) = 0 /\ Stored = 0 /\ Len(line.text) = 0 /\ line.ask = Nothing
  <2>1. Len(fifo) = 0 /\ line.text = <<>> /\ line.ask = Nothing
    BY <1>2 DEF NoLine
  <2>2. Stored = 0 - 0
    BY <1>2, <2>1 DEF Stored
  <2>. QED
    BY <2>1, <2>2
<1>4. ~Done /\ NoKeys /\ UART0_buf[0] # CR
  <2>1. 0 \in Positions
    BY Constants
  <2>. QED
    BY <1>2, <1>3, <2>1, NoKey, Constants DEF Done, NoKeys
<1>5. Flow /\ Asked /\ Written
  BY <1>2, <1>3, <1>4 DEF Flow, Asked, Written
<1>6. Keys(<<>>) /\ Old /\ MenuKey
  BY <1>4 DEF Keys, Old, MenuKey, NoKeys
<1>7. Passes /\ Executes /\ Searches(<<>>)
  BY <1>2, <1>4 DEF Passes, Executes, Searches
<1>. QED
  BY <1>1, <1>5, <1>6, <1>7 DEF UserInv

\* The inductive invariant of the console with a user who waits for main.
THEOREM PatientCorrect ==
    ASSUME Patient
    PROVE  Spec => []PatientInv
<1>1. Init => PatientInv
  BY InitUser
<1>2. PatientInv /\ [Next]_vars => PatientInv'
  <2>. SUFFICES ASSUME PatientInv, [Next]_vars PROVE PatientInv'
    OBVIOUS
  <2>1. PICK before \in Heads \cup {<<>>} : UserInv(before)
    BY DEF PatientInv
  <2>2. UserInv(before)' => PatientInv'
    BY DEF PatientInv
  <2>3. CASE UART0_IntHandler
    BY <2>1, <2>2, <2>3, HandlerStep
  <2>4. CASE UARTGetBuffer
    BY <2>1, <2>2, <2>4, EndStep, StoreStep
  <2>5. CASE debug
    BY <2>1, <2>2, <2>5, EnterStep, MenuStep, SearchStep, ExecuteStep, ResetStep DEF debug
  <2>6. CASE BeginLine
    BY <2>1, <2>6, BeginStep
  <2>7. CASE Type
    BY <2>1, <2>2, <2>7, TypeStep
  <2>8. CASE UNCHANGED vars
    <3>1. UNCHANGED <<UART0_buf, bufCount_0, fifo, serving, pc, keyword, first, j, fresh, line,
                      sofar, lines, typed, executed>>
      BY <2>8 DEF vars, mainVars, userVars
    <3>2. Stored' = Stored /\ (Done' <=> Done)
      BY <3>1 DEF Stored, Done
    <3>3. BoundsInv'
      BY <2>1, <3>1, Situation DEF BoundsInv, TypeOK, RunsFit, LastIsNul, AtFirst, Unbroken, Begun
    <3>4. Flow' /\ Asked' /\ Written'
      BY <2>1, <3>1, <3>2 DEF UserInv, Flow, Asked, Written
    <3>5. Keys(before)' /\ Old' /\ MenuKey'
      BY <2>1, <3>1, <3>2 DEF UserInv, Keys, Old, MenuKey
    <3>6. Passes' /\ Executes'
      BY <2>1, <3>1, <3>2 DEF UserInv, Passes, Executes, NoKeys
    <3>7. Searches(before)'
      BY <2>1, <3>1, <3>2 DEF UserInv, Searches, Matched
    <3>. QED
      BY <2>2, <3>3, <3>4, <3>5, <3>6, <3>7 DEF UserInv
  <2>. QED
    BY <2>3, <2>4, <2>5, <2>6, <2>7, <2>8 DEF Next, Interrupt
<1>. QED
  BY <1>1, <1>2, PTL DEF Spec

\* What main executes is what a user asks for who waits for it, in this order, each
\* once and not before it is typed in full, whatever is typed around it and wherever
\* the interrupts fall between the accesses of main to the buffer.
THEOREM OnceInOrder ==
    ASSUME Patient
    PROVE  Spec => []ExecutedAsTyped
<1>1. PatientInv => ExecutedAsTyped
  <2>. SUFFICES ASSUME NEW before, UserInv(before) PROVE IsPrefix(executed, typed)
    BY DEF PatientInv, ExecutedAsTyped
  <2>1. /\ typed \in Seq(Int) /\ executed \in Seq(Int)
        /\ typed # executed => typed = Append(executed, line.ask)
    BY DEF UserInv, Asked
  <2>2. CASE typed = executed
    BY <2>1, <2>2 DEF IsPrefix
  <2>3. CASE typed = Append(executed, line.ask)
    BY <2>1, <2>3 DEF IsPrefix
  <2>. QED
    BY <2>1, <2>2, <2>3
<1>. QED
  BY <1>1, PatientCorrect, PTL
=============================================================================
