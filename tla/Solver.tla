------------------------------- MODULE Solver -------------------------------
(***************************************************************************)
(* examples/sudoku/sudoku.cc: solveSudoku, by dancing links, on a board    *)
(* of SolBox x SolBox boxes (3 x 3 in the code).  A node is an index into  *)
(* the arrays of its links, as in nodes_; node 1 is root_.                 *)
(***************************************************************************)
EXTENDS Integers, Sequences, SequencesExt, FiniteSets, FiniteSetsExt

CONSTANTS SolBox,          \* the side of a box
          SolLines         \* how many lines of a full board are kept as clues

(* board: the puzzle, 0 for an empty cell; links: nodes_; stack: stack_;   *)
(* frames: c and row_node of every call of solve in progress; todo: the    *)
(* links its loops still have to change; built: what the constructor made. *)
VARIABLE sol

SolSide == SolBox * SolBox
SolCells == 0..(SolSide * SolSide - 1)
SolValues == 1..SolSide
SolRow(i) == i \div SolSide
SolCol(i) == i % SolSide
SolBoxOf(i) == (SolRow(i) \div SolBox) * SolBox + SolCol(i) \div SolBox

(* A full board, and the puzzles made of it: the clues of up to SolLines   *)
(* rows, columns and boxes are kept, and that of one cell, perhaps with    *)
(* another value or a character that is no digit.                          *)
SolFull == [i \in SolCells |->
  (((SolRow(i) % SolBox) * SolBox + SolRow(i) \div SolBox + SolCol(i)) % SolSide) + 1]
SolLineSets == UNION {{{i \in SolCells : SolRow(i) = n}, {i \in SolCells : SolCol(i) = n},
                       {i \in SolCells : SolBoxOf(i) = n}} : n \in 0..(SolSide - 1)}
SolPuzzles ==
  {[i \in SolCells |-> IF i = 5 THEN v ELSE IF i \in UNION kept THEN SolFull[i] ELSE 0] :
     kept \in UNION {kSubset(k, SolLineSets) : k \in 0..SolLines}, v \in 0..(SolSide + 1)}

SolInit == \E p \in SolPuzzles :
  sol = [board |-> p, pc |-> "new", links |-> <<>>, stack |-> <<>>, frames |-> <<>>,
         todo |-> <<>>, built |-> <<>>]

-----------------------------------------------------------------------------
(* get_row_col, get_col_col, get_box_col: names of columns.                *)
SolRowCol(r, v) == 100 + r * 10 + v
SolColCol(c, v) == 200 + c * 10 + v
SolBoxCol(b, v) == 300 + b * 10 + v

(* put_left and put_up: link a node before another one.                    *)
SolPutLeft(d, old, new) ==
  [d EXCEPT !.right = [@ EXCEPT ![new] = old, ![d.left[old]] = new],
            !.left = [@ EXCEPT ![new] = d.left[old], ![old] = new]]
SolPutUp(d, old, new) ==
  [d EXCEPT !.down = [@ EXCEPT ![new] = old, ![d.up[old]] = new],
            !.up = [@ EXCEPT ![new] = d.up[old], ![old] = new],
            !.size[old] = @ + 1, !.col[new] = old]

(* The node that new_column and new_row allocate, linked to itself.        *)
SolNode(d, n) ==
  LET k == Len(d.name) + 1
  IN [left |-> Append(d.left, k), right |-> Append(d.right, k), up |-> Append(d.up, k),
      down |-> Append(d.down, k), col |-> Append(d.col, k), name |-> Append(d.name, n),
      size |-> Append(d.size, 0)]

(* append_column and new_row.  columns_ is the search for the name among   *)
(* the columns, which come first.                                          *)
SolAppendColumn(d, n) == SolPutLeft(SolNode(d, n), 1, Len(d.name) + 1)
SolColumn(d, n) == CHOOSE c \in 2..Len(d.name) : d.name[c] = n /\ d.col[c] = c
SolNewRow(d, n) == SolPutUp(SolNode(d, n), SolColumn(d, n), Len(d.name) + 1)

(* The four nodes of value v in cell i, in one row.                        *)
SolChoice(d, i, v) ==
  LET first == Len(d.name) + 1
      e == SolNewRow(SolNewRow(SolNewRow(SolNewRow(d, i), SolRowCol(SolRow(i), v)),
                               SolColCol(SolCol(i), v)), SolBoxCol(SolBoxOf(i), v))
  IN SolPutLeft(SolPutLeft(SolPutLeft(e, first, first + 1), first, first + 2), first, first + 3)

(* SudokuSolver::SudokuSolver: a column for each empty cell, one for each  *)
(* value that a row, column or box lacks, and the choices that are free.   *)
SolConstructor(board) ==
  LET rows(r, v) == \E i \in SolCells : SolRow(i) = r /\ board[i] = v
      cols(c, v) == \E i \in SolCells : SolCol(i) = c /\ board[i] = v
      boxes(b, v) == \E i \in SolCells : SolBoxOf(i) = b /\ board[i] = v
      all == [k \in 1..(SolSide * SolSide) |-> k - 1]
      empty == SelectSeq(all, LAMBDA i : board[i] = 0)
      lacks(i, v) == (IF rows(i, v) THEN <<>> ELSE <<SolRowCol(i, v)>>)
                       \o (IF cols(i, v) THEN <<>> ELSE <<SolColCol(i, v)>>)
                       \o (IF boxes(i, v) THEN <<>> ELSE <<SolBoxCol(i, v)>>)
      units == FlattenSeq([k \in DOMAIN all |-> lacks(all[k] \div SolSide, (all[k] % SolSide) + 1)])
      free(i) == SelectSeq([v \in SolValues |-> v],
        LAMBDA v : ~rows(SolRow(i), v) /\ ~cols(SolCol(i), v) /\ ~boxes(SolBoxOf(i), v))
      choices == FlattenSeq([k \in DOMAIN empty |->
                   [n \in DOMAIN free(empty[k]) |-> <<empty[k], free(empty[k])[n]>>]])
  IN [k \in DOMAIN (empty \o units) |-> <<"column", (empty \o units)[k]>>]
       \o [k \in DOMAIN choices |-> <<"choice", choices[k]>>]

-----------------------------------------------------------------------------
RECURSIVE SolWalk(_, _, _)
(* The nodes met along a link, up to the one the walk started from.        *)
SolWalk(link, n, stop) == IF n = stop THEN <<>> ELSE <<n>> \o SolWalk(link, link[n], stop)
SolRing(link, n) == SolWalk(link, link[n], n)

(* get_min_column: the first of the smallest columns, or the first one of  *)
(* size at most 1.                                                         *)
SolMinColumn(d) ==
  LET ring == SolRing(d.right, 1)
      small(k) == d.size[ring[k]] <= 1
      least == {k \in DOMAIN ring : \A m \in DOMAIN ring : d.size[ring[k]] <= d.size[ring[m]]}
  IN ring[Min({k \in DOMAIN ring : IF \E m \in DOMAIN ring : small(m) THEN small(k) ELSE k \in least})]

(* The inner loops of cover and uncover, over the nodes that leave their   *)
(* columns and come back.                                                  *)
RECURSIVE SolHide(_, _), SolShow(_, _)
SolHide(d, nodes) ==
  IF nodes = <<>> THEN d
  ELSE LET j == Head(nodes)
       IN SolHide([d EXCEPT !.up[d.down[j]] = d.up[j], !.down[d.up[j]] = d.down[j],
                            !.size[d.col[j]] = @ - 1], Tail(nodes))
SolShow(d, nodes) ==
  IF nodes = <<>> THEN d
  ELSE LET j == Head(nodes)
       IN SolShow([d EXCEPT !.size[d.col[j]] = @ + 1, !.up[d.down[j]] = j, !.down[d.up[j]] = j],
                  Tail(nodes))
SolNodes(rows, across) == FlattenSeq([k \in DOMAIN rows |-> SolRing(across, rows[k])])

(* cover *)
SolCover(d, c) ==
  SolHide([d EXCEPT !.left[d.right[c]] = d.left[c], !.right[d.left[c]] = d.right[c]],
          SolNodes(SolRing(d.down, c), d.right))

(* uncover: the same nodes in the opposite order.                          *)
SolUncover(d, c) ==
  LET e == SolShow(d, SolNodes(SolRing(d.up, c), d.left))
  IN [e EXCEPT !.left[e.right[c]] = c, !.right[e.left[c]] = c]

(* What a row says: the cell and the value of its four nodes.              *)
SolCellOf(d, n) == LET names == {d.name[m] : m \in ToSet(<<n>> \o SolRing(d.right, n))}
                   IN CHOOSE x \in names : x < 100
SolValueOf(d, n) == LET names == {d.name[m] : m \in ToSet(<<n>> \o SolRing(d.right, n))}
                    IN (CHOOSE x \in names : x >= 100) % 10

SolStart_NoBlank ==
  /\ sol.pc = "new"
  /\ sol' = IF \A i \in SolCells : sol.board[i] \in SolValues
            THEN [sol EXCEPT !.pc = "solve", !.todo = SolConstructor(sol.board), !.links =
                    SolNode([left |-> <<>>, right |-> <<>>, up |-> <<>>, down |-> <<>>,
                             col |-> <<>>, name |-> <<>>, size |-> <<>>], 0)]
            ELSE [sol EXCEPT !.pc = "none"]

(* solveSudoku: read the puzzle and build the solver.                      *)
SolStart ==
  /\ sol.pc = "new"
  /\ sol' = IF \A i \in SolCells : sol.board[i] \in 0..SolSide
            THEN [sol EXCEPT !.pc = "solve", !.todo = SolConstructor(sol.board), !.links =
                    SolNode([left |-> <<>>, right |-> <<>>, up |-> <<>>, down |-> <<>>,
                             col |-> <<>>, name |-> <<>>, size |-> <<>>], 0)]
            ELSE [sol EXCEPT !.pc = "none"]

(* One turn of a loop of the constructor or of solve.                      *)
SolLink ==
  LET d == sol.links
      op == Head(sol.todo)[1]
      arg == Head(sol.todo)[2]
      next == CASE op = "column" -> SolAppendColumn(d, arg)
                [] op = "choice" -> SolChoice(d, arg[1], arg[2])
                [] op = "cover" -> SolCover(d, d.col[arg])
                [] op = "uncover" -> SolUncover(d, d.col[arg])
      built == op \in {"column", "choice"} /\ Len(sol.todo) = 1
  IN /\ sol.todo # <<>>
     /\ sol' = [sol EXCEPT !.todo = Tail(@), !.links = next, !.built = IF built THEN next ELSE @]

(* solve, entered: done when no column is left, otherwise cover the        *)
(* smallest one and begin with its first row.                              *)
SolSolve ==
  LET d == sol.links
      c == SolMinColumn(d)
  IN /\ sol.pc = "solve" /\ sol.todo = <<>>
     /\ sol' = IF d.left[1] = 1 THEN [sol EXCEPT !.pc = "solved"]
               ELSE [sol EXCEPT !.pc = "row", !.todo = <<<<"cover", c>>>>,
                                !.frames = Append(@, [col |-> c, row |-> d.down[c]])]

(* The head of its loop: take the next row, or return false.               *)
SolTakeRow ==
  LET f == Last(sol.frames)
      others == SolRing(sol.links.right, f.row)
  IN /\ sol.pc = "row" /\ sol.todo = <<>>
     /\ sol' = IF f.row # f.col
               THEN [sol EXCEPT !.pc = "solve", !.stack = Append(@, f.row),
                       !.todo = [k \in DOMAIN others |-> <<"cover", others[k]>>]]
               ELSE [sol EXCEPT !.todo = <<<<"uncover", f.col>>>>, !.frames = Front(@),
                                !.pc = IF Len(sol.frames) = 1 THEN "none" ELSE "back"]

(* Its body after a call of solve that failed: take the row back.          *)
SolBack ==
  LET f == Last(sol.frames)
      others == SolRing(sol.links.left, f.row)
  IN /\ sol.pc = "back" /\ sol.todo = <<>>
     /\ sol' = [sol EXCEPT !.pc = "row", !.stack = Front(@),
                  !.frames[Len(sol.frames)].row = sol.links.down[f.row],
                  !.todo = [k \in DOMAIN others |-> <<"uncover", others[k]>>]]

(* The board solve fills in from the rows on its stack.                    *)
SolResult == [i \in SolCells |->
  LET chosen == {n \in ToSet(sol.stack) : SolCellOf(sol.links, n) = i}
  IN IF chosen = {} THEN sol.board[i] ELSE SolValueOf(sol.links, CHOOSE n \in chosen : TRUE)]

SolNext == SolStart \/ SolLink \/ SolSolve \/ SolTakeRow \/ SolBack

-----------------------------------------------------------------------------
SolSameUnit(i, j) == SolRow(i) = SolRow(j) \/ SolCol(i) = SolCol(j) \/ SolBoxOf(i) = SolBoxOf(j)
SolSolved(b) == /\ \A i \in SolCells : b[i] \in SolValues
                /\ \A i, j \in SolCells : i # j /\ SolSameUnit(i, j) => b[i] # b[j]
SolLinesOf == {p \in [1..SolSide -> SolValues] : \A i, j \in 1..SolSide : i # j => p[i] # p[j]}
RECURSIVE SolGridsTo(_)
SolGridsTo(n) ==
  IF n = 0 THEN {<<>>}
  ELSE {g \in {Append(top, line) : top \in SolGridsTo(n - 1), line \in SolLinesOf} :
          \A r \in 1..(n - 1), i, j \in 1..SolSide :
            SolSameUnit((r - 1) * SolSide + i - 1, (n - 1) * SolSide + j - 1) => g[r][i] # g[n][j]}
SolGrids == {[i \in SolCells |-> g[SolRow(i) + 1][SolCol(i) + 1]] : g \in SolGridsTo(SolSide)}
SolSolvable == \E g \in SolGrids : \A i \in SolCells : sol.board[i] # 0 => g[i] = sol.board[i]

(* A solution is returned if and only if there is one, and it is a solution*)
(* of the puzzle that was asked; clues that contradict each other or are no*)
(* digits have none.                                                       *)
SolRight ==
  /\ sol.pc = "solved" => /\ SolSolved(SolResult)
                          /\ \A i \in SolCells : sol.board[i] # 0 => SolResult[i] = sol.board[i]
  /\ sol.pc = "none" => ~SolSolvable

(* A search that fails has taken back every step: cover and uncover leave  *)
(* all links and sizes as the constructor made them.                       *)
SolRestored == sol.pc = "none" /\ sol.todo = <<>> /\ sol.links # <<>> =>
  sol.links = sol.built /\ sol.stack = <<>>

(* The sizes get_min_column compares are the lengths of the columns still  *)
(* to cover, at every step of the search.                                  *)
SolSizes == sol.pc \in {"solve", "row", "back"} /\ sol.todo = <<>> =>
  \A c \in ToSet(SolRing(sol.links.right, 1)) : sol.links.size[c] = Len(SolRing(sol.links.down, c))

(* The solver, whole.                                                      *)
SolverSound == SolRight /\ SolRestored /\ SolSizes
=============================================================================
