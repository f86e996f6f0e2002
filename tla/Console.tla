------------------------------- MODULE Console -------------------------------
(***************************************************************************)
(* kprintf and the screen of arch/ia32/printf.c.  kvprintf formats into a  *)
(* buffer and prints it in one irqsave section of kprintf_spinlock, which  *)
(* nothing interrupts but an exception: the page fault of a %s through a   *)
(* bad pointer.  Its handler prints a message and spins on the lock the    *)
(* interrupted kprintf holds.  A cell of the screen is a character (and an *)
(* attribute nobody changes).                                              *)
(***************************************************************************)
EXTENDS Format

CONSTANTS COLS, ROWS,   \* 80 and 25
          Directives,   \* directives and arguments handed to kvsprintf
          Messages      \* formats and arguments handed to kprintf

ASSUME ScreenAssumption == COLS \in Nat \ {0} /\ COLS % 2 = 0 /\ ROWS \in Nat \ {0}

VARIABLES
  video,        \* the characters of video memory
  video_next,   \* the cell that is written next
  call,         \* the last call of kvsprintf: directive, argument and text
  rows,         \* history: the last ROWS rows of all that was printed
  hung          \* a handler spins on kprintf_spinlock

vars == <<video, video_next, call, rows, hung>>

Cells == 0..ROWS * COLS - 1
NoCall == [directive |-> [flags |-> <<>>, width |-> 0, precision |-> 0,
                          length |-> "none", spec |-> "%"],
           arg |-> 0, text |-> <<"%">>]

(* A directive as a client writes it.                                      *)
Decimal(n) == IF n = 0 THEN <<>> ELSE Digits(n, 10, lower_digits)
Modifier == [none |-> <<>>, h |-> <<"h">>, hh |-> <<"h", "h">>, l |-> <<"l">>, ll |-> <<"l", "l">>]
FormatOf(d) ==
  <<"%">> \o d.flags \o Decimal(d.width)
    \o (IF d.precision = 0 THEN <<>> ELSE <<".">> \o Decimal(d.precision))
    \o Modifier[d.length] \o <<d.spec>>

(* kprintf_init                                                            *)
Init ==
  /\ video = [i \in Cells |-> " "] /\ video_next = 0
  /\ call = NoCall /\ rows = << <<>> >> /\ hung = FALSE

(* kmemory_virtual_copy: count pairs of cells, upwards (rep movsl).        *)
RECURSIVE kmemory_virtual_copy_Down(_, _, _, _)
kmemory_virtual_copy_Down(v, destination, source, count) ==
  IF count = 0 THEN v
  ELSE kmemory_virtual_copy_Down(
         [v EXCEPT ![destination + 2 * count - 2] = v[source + 2 * count - 2],
                   ![destination + 2 * count - 1] = v[source + 2 * count - 1]],
         destination, source, count - 1)

RECURSIVE kmemory_virtual_copy(_, _, _, _)
kmemory_virtual_copy(v, destination, source, count) ==
  IF count = 0 THEN v
  ELSE kmemory_virtual_copy(
         [v EXCEPT ![destination] = v[source], ![destination + 1] = v[source + 1]],
         destination + 2, source + 2, count - 1)

Blank(v, from) == [i \in Cells |-> IF i \in from..from + COLS - 1 THEN " " ELSE v[i]]

(* A screen is [video, next].  The end of the last row scrolls it up.      *)
Scroll(s) ==
  IF s.next < ROWS * COLS THEN s
  ELSE LET last == (ROWS - 1) * COLS
       IN  [video |-> Blank(kmemory_virtual_copy(s.video, 0, COLS, last \div 2), last),
            next |-> last]

RECURSIVE raw_print(_, _)
raw_print(s, text) ==
  IF text = <<>> \/ Head(text) = NUL THEN s
  ELSE raw_print(Scroll(IF Head(text) = "\n"
                        THEN [s EXCEPT !.next = (@ \div COLS) * COLS + COLS]
                        ELSE [video |-> [s.video EXCEPT ![s.next] = Head(text)],
                              next |-> s.next + 1]),
                 Tail(text))

(* The reference: rows of text, a new one at each newline and whenever a   *)
(* row is full, of which the last ROWS are seen.                           *)
LastRows(r) == SubSeq(r, Max2(Len(r) - ROWS, 0) + 1, Len(r))

RECURSIVE Typed(_, _)
Typed(r, text) ==
  IF text = <<>> \/ Head(text) = NUL THEN r
  ELSE LET last == IF Head(text) = "\n" THEN r[Len(r)] ELSE Append(r[Len(r)], Head(text))
           on == [r EXCEPT ![Len(r)] = last]
       IN  Typed(LastRows(IF Head(text) = "\n" \/ Len(last) = COLS THEN Append(on, <<>>) ELSE on),
                 Tail(text))

-----------------------------------------------------------------------------
(* A client formats one directive into a buffer of its own.  Bound: before *)
(* anything is printed, since neither reads what the other leaves.         *)
Kvsprintf ==
  /\ ~hung /\ rows = << <<>> >> /\ call = NoCall
  /\ \E d \in Directives : \E arg \in d.arguments :
       call' = [directive |-> d.directive, arg |-> arg,
                text |-> kvsprintf(FormatOf(d.directive), <<arg>>)]
  /\ UNCHANGED <<video, video_next, rows, hung>>

(* kprintf and kvprintf.                                                   *)
Kvprintf(text) ==
  IF \E i \in 1..Len(text) : text[i] = FAULT
  THEN hung' = TRUE /\ UNCHANGED <<video, video_next, rows>>
  ELSE LET s == raw_print([video |-> video, next |-> video_next], text)
       IN  /\ video' = s.video /\ video_next' = s.next
           /\ rows' = Typed(rows, text)
           /\ UNCHANGED hung

Kprintf(m) ==
  /\ ~hung /\ call = NoCall
  /\ Kvprintf(kvsprintf(m.format, m.args))
  /\ UNCHANGED call

Next == Kvsprintf \/ \E m \in Messages : Kprintf(m)

Spec == Init /\ [][Next]_vars

-----------------------------------------------------------------------------
(* The screen shows the last rows of everything that was printed, with the *)
(* cursor behind the last character, through wraps at the end of a row,    *)
(* newlines, messages of more rows than the screen has and the copying of  *)
(* overlapping memory when it scrolls (raw_print).                         *)
ScreenShowsTail ==
  /\ video_next = (Len(rows) - 1) * COLS + Len(rows[Len(rows)])
  /\ \A i \in Cells :
       LET r == (i \div COLS) + 1
           c == (i % COLS) + 1
       IN  video[i] = IF r <= Len(rows) /\ c <= Len(rows[r]) THEN rows[r][c] ELSE " "

(* kvsprintf takes a directive for what the client wrote, and wherever the *)
(* format is cut short it does not read past the NUL.                      *)
StopsAtNul ==
  LET f == FormatOf(call.directive)
      d == Directive(f, 1)
  IN  /\ d.flags = {call.directive.flags[i] : i \in 1..Len(call.directive.flags)}
      /\ d.precision = call.directive.precision /\ d.length = call.directive.length
      /\ d.spec = call.directive.spec /\ d.last = Len(f)
      /\ \A n \in 1..Len(f) - 1 : Directive(SubSeq(f, 1, n), 1).last <= n + 1

(* The text of a number: leading spaces, a sign, 0x and digits.            *)
Spaces(t) == CHOOSE n \in 0..Len(t) : (\A i \in 1..n : t[i] = " ") /\ (n < Len(t) => t[n + 1] # " ")
Unsigned(t) == SubSeq(t, Spaces(t) + (IF "-" \in {t[i] : i \in 1..Len(t)} THEN 2 ELSE 1), Len(t))
Bare(t) == IF Len(t) > 2 /\ t[2] \in {"x", "X"} THEN SubSeq(t, 3, Len(t)) ELSE t

Signed(n) == IF n >= 2^(WordBits - 1) THEN n - 2^WordBits ELSE n
BitsOf(length) == IF length = "hh" THEN ByteBits ELSE IF length = "h" THEN ShortBits ELSE WordBits

(* The value a number with the directive d stands for: signed ones are     *)
(* sign extended, and only those that the length can hold are meant.       *)
Meant(d, n) ==
  IF d.spec \in {"d", "i"} THEN Signed(n) ELSE n % 2^BitsOf(d.length)
Sensible(d, n) ==
  d.spec \in {"d", "i"} => Signed(n) \in -(2^(BitsOf(d.length) - 1))..2^(BitsOf(d.length) - 1) - 1

(* A number reads back as the argument it was made from, in any base, at   *)
(* any length but that of a kuint64, with any flags and width; without a   *)
(* width its digits and padding together take the precision (six bits of   *)
(* it), or more only if the digits need it.  No number, however padded,    *)
(* overflows the array it is put together in (write_number_kuint32).       *)
NumberDenoted ==
  LET d == call.directive
      t == call.text
      b == Bare(Unsigned(t))
      n == d.precision % 64
      digits == Len(b) + Spaces(t)
  IN  /\ d.spec \in Integral \cup {"p"} => Len(t) + 1 <= ARRAY
      /\ d.spec \in Integral /\ d.length # "ll" /\ Sensible(d, call.arg) =>
           /\ NumberIn(b, Base(d)) * (IF Len(Unsigned(t)) + Spaces(t) < Len(t) THEN -1 ELSE 1)
                = Meant(d, call.arg)
           /\ d.width = 0 =>
                digits >= n /\ (digits > n => Spaces(t) = 0 /\ (Len(b) > 1 => b[1] # "0"))

(* A number is written with at least as many characters as the width of    *)
(* its directive asks for: the form that the comment at the head of        *)
(* printf.c gives and handle_exception uses.                               *)
WidthKept ==
  call.directive.spec \in Integral => Len(call.text) >= call.directive.width

(* A kfloat is printed with its digits before the point, at least one, and *)
(* as many after it as asked for (six if not), cut and not rounded         *)
(* (write_number_kfloat, but for the rounding of its binary arithmetic).   *)
FloatCut ==
  LET d == call.directive
      places == IF d.precision = 0 THEN 6 ELSE d.precision
      t == Unsigned(call.text)
      point == Len(t) - places
      n == IF call.arg < 0 THEN -call.arg ELSE call.arg
  IN  d.spec \in {"f", "F"} =>
        /\ point > 1 /\ t[point] = "."
        /\ Len(t) < Len(call.text) <=> call.arg < 0
        /\ NumberIn(SubSeq(t, 1, point - 1), 10) = n \div 10^Tenths
        /\ NumberIn(SubSeq(t, point + 1, Len(t)), 10) = ((n % 10^Tenths) * 10^places) \div 10^Tenths
=============================================================================
