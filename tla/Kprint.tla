------------------------------- MODULE Kprint -------------------------------
(***************************************************************************)
(* Console output (kernel/kprint.c) down to the screen.  kputn divides     *)
(* with the routines of ArmDiv, one pass of their loop at a time, as the   *)
(* ARM compiler makes it do; other callers use the routines directly.      *)
(*                                                                         *)
(* A format is a sequence of characters.  Arguments are numbers or         *)
(* strings (sequences of characters).                                      *)
(***************************************************************************)
EXTENDS ArmDiv, Video, SequencesExt

CONSTANTS
  BufferBytes,  \* length of the buffer of kputn (65)
  Formats,      \* formats, as sequences of directives
  Texts         \* strings passed as arguments

\* The radix 16 is a number, and the buffer has room for all bits of one.
ASSUME KprintAssumption == W >= 5 /\ BufferBytes \in Nat /\ BufferBytes > W

VARIABLES
  directives,  \* the format as its author meant it
  args,        \* the arguments, one [number, text] for each directive
  fmt,         \* what is left of the format
  ap,          \* number of arguments consumed
  at,          \* where kprintf or kputn is
  value, radix, temp, digits, ptr, buffer,  \* the locals of kputn
  video,       \* the screen
  out,         \* what went to serial_putc
  early        \* a backspace was printed at the very beginning of the screen

kvars == <<directives, args, fmt, ap, at, value, radix, temp, digits, ptr, buffer,
           video, out, early>>

chars == <<"0", "1", "2", "3", "4", "5", "6", "7", "8", "9", "A", "B", "C", "D", "E", "F">>

Glyphs == ToSet(chars) \cup {"c", "x", " ", "b"}

KTypeOK ==
  /\ TypeOK
  /\ ap \in 0..(Len(args) + 1)
  /\ at \in {"format", "count", "put", "done", "beyond", "none"}
  /\ value \in Word /\ temp \in Word /\ digits \in Nat
  /\ ptr \in 0..(BufferBytes - 1)
  /\ buffer \in [0..(BufferBytes - 1) -> Glyphs \cup {""}]
  /\ IsVideo(video, Glyphs)

Quiet ==
  /\ op = "__udivsi3" /\ a = 0 /\ b = 0 /\ n = 0 /\ d = 0
  /\ q = 0 /\ r = 0 /\ sr = 0 /\ carry = 0 /\ result = 0
  /\ pc = "done"

\* kprintf is called, or a division by some other code.
KInit ==
  /\ \/ /\ Quiet
        /\ directives \in Formats
        /\ args \in [1..2 -> [number : Word, text : Texts]]
        /\ args[2].number \in {0, args[1].number}
        /\ at = "format"
     \/ /\ Init
        /\ directives = <<>> /\ args = <<>> /\ at = "none"
  /\ fmt = FlattenSeq(directives)
  /\ ap = 0
  /\ value = 0 /\ radix = 0 /\ temp = 0 /\ digits = 0 /\ ptr = 0
  /\ buffer = [k \in 0..(BufferBytes - 1) |-> ""]
  /\ video = video_clear
  /\ out = <<>>
  /\ early = FALSE

-----------------------------------------------------------------------------

\* kputs and kputc: every character goes to serial_putc.
kputs(str) ==
  /\ out' = out \o str
  /\ video' = FoldLeft(video_putc, video, str)
  /\ early' = (early \/ \E k \in DOMAIN str :
       /\ str[k] = "BS"
       /\ LET v == FoldLeft(video_putc, video, SubSeq(str, 1, k - 1))
          IN  v.vx + v.vy * Columns <= 0)

Divide(routine, x, y) ==
  /\ op' = routine /\ a' = x /\ b' = y /\ n' = x /\ d' = y
  /\ q' = 0 /\ r' = 0 /\ sr' = 0 /\ carry' = 0 /\ result' = 0
  /\ pc' = "call"

\* kputn is entered; the radix is one of those kprintf passes, and the test of
\* its range lets them pass.
kputn(number, base) ==
  /\ value' = number /\ radix' = base /\ temp' = number
  /\ digits' = 1
  /\ at' = "count"
  /\ Divide("__udivsi3", number, base)

AtFormat(c) == at = "format" /\ Len(fmt) >= Len(c) /\ SubSeq(fmt, 1, Len(c)) = c

\* A character that stands for itself.
Literal ==
  /\ at = "format" /\ fmt # <<>> /\ fmt[1] # "%"
  /\ kputs(<<fmt[1]>>)
  /\ fmt' = Tail(fmt)
  /\ UNCHANGED <<vars, directives, args, ap, at, value, radix, temp, digits, ptr, buffer>>

\* "%i", "%x" (as "%p") and "%b": the number is taken for an unsigned one.
Number(c, prefix, base) ==
  /\ AtFormat(<<"%", c>>)
  /\ ap < Len(args)
  /\ ap' = ap + 1
  /\ kputs(prefix)
  /\ kputn(args[ap + 1].number, base)
  /\ UNCHANGED <<directives, args, fmt, ptr, buffer>>

\* "%s"
String ==
  /\ AtFormat(<<"%", "s">>)
  /\ ap < Len(args)
  /\ ap' = ap + 1
  /\ kputs(args[ap + 1].text)
  /\ fmt' = SubSeq(fmt, 3, Len(fmt))
  /\ UNCHANGED <<vars, directives, args, at, value, radix, temp, digits, ptr, buffer>>

\* A directive that the switch does not know prints nothing.  If the format ends
\* here, the pointer steps over its end.
Unknown ==
  /\ at = "format" /\ fmt # <<>> /\ fmt[1] = "%"
  /\ Len(fmt) > 1 => fmt[2] \notin {"i", "x", "b", "s"}
  /\ fmt' = IF Len(fmt) = 1 THEN <<>> ELSE SubSeq(fmt, 3, Len(fmt))
  /\ at' = IF Len(fmt) = 1 THEN "beyond" ELSE "format"
  /\ UNCHANGED <<vars, directives, args, ap, value, radix, temp, digits, ptr, buffer, video, out, early>>

EndOfFormat ==
  /\ at = "format" /\ fmt = <<>>
  /\ at' = "done"
  /\ UNCHANGED <<vars, directives, args, fmt, ap, value, radix, temp, digits, ptr, buffer,
                 video, out, early>>

-----------------------------------------------------------------------------
(* kputn *)

\* Faulty variant: a quotient of one is taken for the end.
count_to_one(t) == t > 1

\* The loop that counts the digits goes on.
CountMore(t) == t > 0

\* A division of the counting loop has returned.  The test of the number of
\* digits against the buffer never holds: a word has at most W digits.
Count ==
  /\ at = "count" /\ pc = "done"
  /\ IF CountMore(result)
     THEN /\ temp' = result
          /\ digits' = digits + 1
          /\ Divide("__udivsi3", result, radix)
          /\ UNCHANGED <<at, ptr, buffer>>
     ELSE /\ temp' = value
          /\ ptr' = digits
          /\ buffer' = [buffer EXCEPT ![digits] = ""]
          /\ at' = "put"
          /\ Divide("__umodsi3", value, radix)
          /\ UNCHANGED digits
  /\ UNCHANGED <<directives, args, fmt, ap, value, radix, video, out, early>>

\* temp%radix has returned: the digit is stored and temp/radix called.
PutDigit ==
  /\ at = "put" /\ pc = "done" /\ op = "__umodsi3"
  /\ ptr' = ptr - 1
  /\ buffer' = [buffer EXCEPT ![ptr - 1] = chars[result + 1]]
  /\ Divide("__udivsi3", temp, radix)
  /\ UNCHANGED <<directives, args, fmt, ap, at, value, radix, temp, digits, video, out, early>>

\* The text in the buffer from p to the terminating zero.
FromBuffer(p) ==
  LET end == CHOOSE e \in p..(BufferBytes - 1) :
               buffer[e] = "" /\ \A k \in p..(e - 1) : buffer[k] # ""
  IN  [k \in 1..(end - p) |-> buffer[p + k - 1]]

\* temp/radix has returned: the next digit, or the number is printed.  The case
\* "%b" has no break, so that kprintf goes on with the code of "%s".
PutNext ==
  /\ at = "put" /\ pc = "done" /\ op = "__udivsi3"
  /\ temp' = result
  /\ digits' = digits - 1
  /\ IF digits > 1
     THEN /\ Divide("__umodsi3", result, radix)
          /\ UNCHANGED <<at, ap, fmt, out, video, early>>
     ELSE /\ kputs(FromBuffer(ptr) \o
                   (IF fmt[2] = "b" /\ ap < Len(args) THEN args[ap + 1].text ELSE <<>>))
          /\ ap' = IF fmt[2] = "b" THEN ap + 1 ELSE ap
          /\ fmt' = SubSeq(fmt, 3, Len(fmt))
          /\ at' = IF ap' > Len(args) THEN "beyond" ELSE "format"
          /\ UNCHANGED vars
  /\ UNCHANGED <<directives, args, value, radix, ptr, buffer>>

KNext ==
  \/ Next /\ UNCHANGED kvars
  \/ Literal
  \/ Number("i", <<>>, 10)
  \/ Number("x", <<"0", "x">>, 16)
  \/ Number("b", <<"0", "b">>, 2)
  \/ String
  \/ Unknown
  \/ EndOfFormat
  \/ Count
  \/ PutDigit
  \/ PutNext

KSpec == KInit /\ [][KNext]_<<vars, kvars>>

-----------------------------------------------------------------------------

\* The shortest numeral of x, defined digit by digit from its places.
Numeral(x, base) ==
  LET k == CHOOSE m \in 1..(W + 1) : x < base^m /\ (m = 1 \/ x >= base^(m - 1))
  IN  [j \in 1..k |-> chars[((x \div base^(k - j)) % base) + 1]]

\* What directive i should print.
Meaning(i) ==
  LET dir == directives[i]
      before == Cardinality({j \in 1..(i - 1) : directives[j] \in {<<"%", x>> : x \in {"i", "x", "s"}}})
      arg == args[before + 1]
  IN  CASE dir = <<"%", "i">> -> Numeral(arg.number, 10)
        [] dir = <<"%", "x">> -> <<"0", "x">> \o Numeral(arg.number, 16)
        [] dir = <<"%", "s">> -> arg.text
        [] dir = <<"%", "%">> -> <<>>
        [] OTHER              -> dir

\* kputn never depends on its test of the number of digits, which lets one more
\* pass than the buffer has room for: a word has at most W digits in any radix.
\* The two loops agree, so that the last digit goes to the start of the buffer,
\* and what is printed ends within it.
WithinBuffer ==
  at \in {"count", "put"} =>
    /\ digits \in 1..W
    /\ at = "put" =>
         /\ ptr = IF op = "__umodsi3" THEN digits ELSE digits - 1
         /\ \E e \in ptr..W : buffer[e] = ""

\* kprintf prints every directive with the argument that belongs to it, numbers
\* as the numerals that denote them, and kputn stays within its buffer, with the
\* division routine of the kernel.  "%b" is excepted: its case falls through to
\* that of "%s" and consumes the next argument too.
PrintedAsAsked ==
  /\ KTypeOK
  /\ WithinBuffer
  /\ at = "done" /\ (\A i \in DOMAIN directives : directives[i] # <<"%", "b">>) =>
       out = FlattenSeq([i \in DOMAIN directives |-> Meaning(i)])

\* The rows that a text of glyphs and newlines fills.
Layout(text) ==
  FoldLeft(LAMBDA lines, c :
             IF c = "NL" THEN Append(lines, <<>>)
             ELSE LET line == Append(Last(lines), c)
                  IN  IF Len(line) = Columns THEN Front(lines) \o <<line, <<>>>>
                      ELSE Append(Front(lines), line),
           <<<<>>>>, text)

\* The screen shows the end of what was printed, wrapped at its width, through
\* any number of scrolls; and video_putc writes to no cell outside of it, unless
\* a backspace is printed at its very beginning.
ScreenShowsText ==
  /\ video.stray => early
  /\ "BS" \notin ToSet(out) =>
       LET lines == Layout(out)
           first == IF Len(lines) > Rows THEN Len(lines) - Rows ELSE 0
       IN  \A p \in Cell :
             LET row == first + (p \div Columns) + 1
                 col == (p % Columns) + 1
             IN  video.vmem[p] =
                   IF row <= Len(lines) /\ col <= Len(lines[row]) THEN lines[row][col] ELSE ""
=============================================================================
