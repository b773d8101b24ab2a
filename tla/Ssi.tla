-------------------------------- MODULE Ssi ---------------------------------
(* Server side includes of mongoose: the pages with directives in comments. A page is a sequence
   of character codes; a code from 1000 stands for the words of a directive: Include + k for
   include file="k", Call + k for a call with the argument k. Pages is the function from k to
   its page, and a file without directives is in Raw. *)
EXTENDS Integers, Sequences, SequencesExt
CONSTANTS Pages, Raw, BufSize, MaxLevel

Lt == 60
Gt == 62
Dash == 45
Space == 32
Tag == <<Lt, 33, Dash, Dash, 35>>

Include == 1000
Call == 2000
Deep == 3000
NoFile == 4000
TooLarge == 5000
Called == 6000

\* What the buffer holds before anything is read: anything, but it is not looked at
Empty == [i \in 1 .. BufSize |-> 0]

\* Bytes put into the buffer at its end
Put(s, ch) == [s EXCEPT !.buf[s.len + 1] = ch, !.len = @ + 1]
Flushed(s) == [s EXCEPT !.out = @ \o SubSeq(s.buf, 1, s.len), !.len = 0]

\* Mutant: the end of any comment ends a directive.
Closes_Anywhere(s, ch) == ch = Gt /\ s.len >= 2 /\ s.buf[s.len] = Dash /\ s.buf[s.len - 1] = Dash

Closes(s, ch) == s.tag /\ ch = Gt /\ s.len >= 2 /\ s.buf[s.len] = Dash /\ s.buf[s.len - 1] = Dash

\* mg_do_ssi_include, mg_send_ssi_file; s is out, what is sent, and the page's own buffer.
\* What is called writes the number of the call.
RECURSIVE Page(_, _), Steps(_, _, _, _)

Directive(s, level) ==
  LET gone == [s EXCEPT !.tag = FALSE, !.len = 0, !.buf[s.len - 1] = 0]
      word == gone.buf[Len(Tag) + 1]
      k == word % 1000
  IN CASE word \in Include .. Include + 999 ->
            [gone EXCEPT !.out = @ \o IF k \notin DOMAIN Pages THEN <<NoFile + k>>
                                      ELSE IF k \in Raw THEN Pages[k] ELSE Page(k, level + 1)]
       [] word \in Call .. Call + 999 -> [gone EXCEPT !.out = Append(@, Called + k)]
       [] OTHER -> gone

\* The character at i of a page
Steps(page, i, s, level) ==
  LET ch == page[i]
      on(t) == Steps(page, i + 1, t, level)
      full == Put(s, ch)
  IN IF i > Len(page) THEN Flushed(s).out
     ELSE IF Closes(s, ch) THEN on(Directive(s, level))
     ELSE IF ch = Lt THEN on(Put([Flushed(s) EXCEPT !.tag = TRUE], ch))
     ELSE IF s.tag /\ s.len = Len(Tag) /\ SubSeq(s.buf, 1, s.len) # Tag
          THEN on([full EXCEPT !.tag = FALSE])
     ELSE IF s.tag /\ s.len = BufSize - 2
          THEN on(Put([s EXCEPT !.out = Append(@, TooLarge), !.len = 0], ch))
     ELSE on(IF ~s.tag /\ full.len = BufSize THEN Flushed(full) ELSE full)

Page(k, level) ==
  IF level > MaxLevel THEN <<Deep>>
  ELSE Steps(Pages[k], 1, [tag |-> FALSE, len |-> 0, buf |-> Empty, out |-> <<>>], level)
=============================================================================
