-------------------------- MODULE MCWindowActions --------------------------
(* Small instances of WindowActions for TLC. *)
EXTENDS WindowActions

\* Two windows of one copy, one of a copy whose path a query garbles.
MCWindows == {"w1", "w2", "w3"}
MCPath == [w \in MCWindows |-> IF w = "w3" THEN "korean" ELSE "ascii"]
MCLegible == {"ascii", "moved"}

\* Every list of the scanners is cut after two entries.
MCCap == [n \in {4, 5, 6, 8, 12, 15, 20, 25, 30, 35} |-> 2]

Kind(on, bad, mark) == [on |-> on, bad |-> bad, mark |-> mark, more |-> FALSE, failed |-> FALSE,
                        group |-> 0, also |-> 0, shown |-> 0]

\* Bad, good, marked and foreign entries, of two groups, some without an answer;
\* three of them exceed every list.
MCMachines ==
  LET a == [Kind(TRUE, TRUE, FALSE) EXCEPT !.also = 2, !.shown = 1]
      b == [Kind(TRUE, TRUE, FALSE) EXCEPT !.also = 1, !.shown = 2]
      o == [b EXCEPT !.group = 1]
      c == [Kind(TRUE, TRUE, TRUE) EXCEPT !.also = 3, !.shown = 3]
      g == [Kind(TRUE, FALSE, FALSE) EXCEPT !.group = 1, !.also = 4, !.shown = 4]
      m == [Kind(TRUE, FALSE, TRUE) EXCEPT !.shown = 5]
      x == [Kind(FALSE, TRUE, FALSE) EXCEPT !.shown = 6]
      d == [Kind(FALSE, FALSE, TRUE) EXCEPT !.shown = 7]
      p == [Kind(FALSE, FALSE, FALSE) EXCEPT !.group = 2, !.more = TRUE]
      f == [Kind(FALSE, FALSE, FALSE) EXCEPT !.failed = TRUE]
      n == [a EXCEPT !.failed = TRUE]
      q == [b EXCEPT !.failed = TRUE]
      w == [a EXCEPT !.more = TRUE]
  IN  {<<>>, <<g>>, <<x>>, <<p>>, <<f>>, <<a>>, <<n>>, <<q>>, <<w>>, <<m, g>>, <<a, b>>,
       <<b, o>>, <<a, g, x>>, <<f, a, d>>, <<a, b, c>>, <<c, b, a, o>>}
============================================================================
