----------------------------- MODULE FilePanel -----------------------------
(***************************************************************************)
(* The file manager of lab9: two panels over one file system that other    *)
(* processes change while the program waits for a key.  A panel keeps the  *)
(* directory it shows as a path, and the list it read when it went there.  *)
(* The program is one loop: draw both panels, wait for a key, handle it.   *)
(* A state is the program at wgetch, with both panels drawn.               *)
(*                                                                         *)
(* A path is a sequence of names, <<>> is the root.  A directory is read   *)
(* at one instant, in any order; one that is gone, or is a file by now,    *)
(* cannot be read.  Symbolic links, and paths as long as PATH_MAX, are     *)
(* left out; so is memory that runs out.  Of a window the rows are kept,   *)
(* not the columns: it is wide enough for the names.                       *)
(*                                                                         *)
(* An operator with the suffix _bug is a seeded slip in the next one.      *)
(***************************************************************************)
EXTENDS Integers, FiniteSets, Sequences

CONSTANTS
    Names,          \* names of files and directories
    Start,          \* where the program is started
    StartDirs, StartFiles,  \* the file system at that time
    Heights,        \* heights the terminal may have
    MaxDepth,       \* bound: names in a path
    MaxChanges      \* bound: changes of the file system

Paths == Seq(Names)
ASSUME FilePanelAssumption ==
    /\ IsFiniteSet(Names) /\ ".." \notin Names
    /\ StartDirs \subseteq Paths /\ StartFiles \subseteq Paths
    /\ Start \in StartDirs
    /\ Heights \subseteq Nat \ {0} /\ Heights # {}
    /\ MaxDepth \in Nat /\ MaxChanges \in Nat

VARIABLES
    dirs, files,    \* the file system
    changes,        \* how often it was changed
    panel,          \* left and right
    active_left,    \* who gets the keys
    rows,           \* height of the terminal when the panels were drawn
    running         \* until "q" is pressed
panelVars == <<dirs, files, changes, panel, active_left, rows, running>>
fileSystem == <<dirs, files, changes>>

Sides == {"left", "right"}
Active == IF active_left THEN "left" ELSE "right"

Entry == [name : Names \cup {".."}, dir : BOOLEAN]
DotDot == [name |-> "..", dir |-> TRUE]
Panel == [cwd : Paths, entries : Seq(Entry), selected : Nat, scroll : Nat]
Count(p) == Len(p.entries)

----------------------------------------------------------------------------
(* file_sys.c *)

is_root(path) == path = <<>>
parent_of(path) == IF is_root(path) THEN path ELSE SubSeq(path, 1, Len(path) - 1)
join_path(base, leaf) == Append(base, leaf)

\* What readdir returns without ".": it does return "..", in the root too.
Present(path) ==
    {DotDot} \cup {[name |-> n, dir |-> join_path(path, n) \in dirs] :
                      n \in {m \in Names : join_path(path, m) \in dirs \cup files}}
Orders(S) == {f \in [1..Cardinality(S) -> S] : \A e \in S : \E k \in DOMAIN f : f[k] = e}

opendir(path) == path \in dirs

\* The lists that may come back if the directory can be opened.  Below the root
\* ".." is put first and comes a second time from readdir.
load_entries(path) ==
    {(IF is_root(path) THEN <<>> ELSE <<DotDot>>) \o o : o \in Orders(Present(path))}

----------------------------------------------------------------------------
(* panel.c *)

AtLeast(m, n) == IF n < m THEN m ELSE n
AtMost(m, n) == IF n > m THEN m ELSE n

\* the list stays when the new directory cannot be read (ShowsItsDirectory)
panel_reload_bug(p) ==
    IF ~opendir(p.cwd) THEN {p}
    ELSE {[p EXCEPT !.entries = list, !.selected = 0, !.scroll = 0] : list \in load_entries(p.cwd)}
panel_reload(p) ==
    IF ~opendir(p.cwd)
    THEN {[p EXCEPT !.entries = <<>>, !.selected = 0, !.scroll = 0]}
    ELSE {LET sel == AtLeast(0, AtMost(Len(list) - 1, p.selected))
          IN [p EXCEPT !.entries = list, !.selected = sel,
                       !.scroll = AtLeast(0, AtMost(sel, @))] : list \in load_entries(p.cwd)}

\* one row too many is taken for visible (CursorVisible), and the cursor is not
\* kept from going above the first entry (TypeOK)
panel_clamp_bug(p, view_rows) ==
    LET sel == AtLeast(0, AtMost(Count(p) - 1, p.selected))
        up == AtMost(sel, p.scroll)
        down == IF sel > up + view_rows THEN sel - view_rows + 1 ELSE up
    IN IF Count(p) = 0 THEN [p EXCEPT !.selected = 0, !.scroll = 0]
       ELSE [p EXCEPT !.selected = sel,
                      !.scroll = AtLeast(0, AtMost(Count(p) - view_rows, AtLeast(0, down)))]
panel_clamp_top(p, view_rows) ==
    LET sel == AtMost(Count(p) - 1, p.selected)
        up == AtMost(sel, p.scroll)
    IN IF Count(p) = 0 THEN [p EXCEPT !.selected = 0, !.scroll = 0]
       ELSE [p EXCEPT !.selected = sel, !.scroll = AtLeast(0, AtMost(Count(p) - view_rows, AtLeast(0, up)))]
panel_clamp(p, view_rows) ==
    LET sel == AtMost(Count(p) - 1, AtLeast(0, p.selected))
        up == AtMost(sel, p.scroll)
        down == IF sel >= up + view_rows THEN sel - view_rows + 1 ELSE up
    IN IF Count(p) = 0 THEN [p EXCEPT !.selected = 0, !.scroll = 0]
       ELSE [p EXCEPT !.selected = sel,
                      !.scroll = AtLeast(0, AtMost(Count(p) - view_rows, AtLeast(0, down)))]

\* The panel goes to `path' with the cursor on the first entry.
GoTo(p, path) == panel_reload([p EXCEPT !.cwd = path, !.selected = 0, !.scroll = 0])

panel_enter(p) ==
    LET e == p.entries[p.selected + 1] IN
    IF Count(p) = 0 \/ ~e.dir THEN {p}
    ELSE GoTo(p, IF e.name = ".." THEN parent_of(p.cwd) ELSE join_path(p.cwd, e.name))

panel_up(p) == IF is_root(p.cwd) THEN {p} ELSE GoTo(p, parent_of(p.cwd))

list_rows(height) == AtLeast(1, height - 2)
panel_draw(p, height) == panel_clamp(p, list_rows(height))

\* What panel_draw has put on each row of the window: the number of an entry, 0
\* for anything else.  Entries are printed from row 1 on, as many as list_rows
\* says and the list has; a row that the window does not have stays unseen, and
\* the help line is printed last, over whatever the bottom row holds.
Printed(p, y, height) == y \in 1..list_rows(height) /\ p.scroll + y <= Count(p)
Window(p, height) ==
    [y \in 0..(height - 1) |->
        IF Printed(p, y, height) /\ y # height - 1 THEN p.scroll + y ELSE 0]

----------------------------------------------------------------------------
(* app.c *)

PanelInit ==
    /\ dirs = StartDirs /\ files = StartFiles /\ changes = 0
    /\ rows \in Heights /\ running = TRUE /\ active_left = TRUE
    /\ \E l, r \in panel_reload([cwd |-> Start, entries |-> <<>>, selected |-> 0, scroll |-> 0]) :
          panel = [s \in Sides |-> panel_draw(IF s = "left" THEN l ELSE r, rows)]

Moves(p) == [up    |-> p.selected - 1,          down  |-> p.selected + 1,
             ppage |-> p.selected - (rows - 2), npage |-> p.selected + (rows - 2),
             home  |-> 0,                       end   |-> Count(p) - 1]
CursorKeys == {"up", "down", "ppage", "npage", "home", "end"}

\* "other" is any key that is not in the list, "resize" what wgetch returns
\* when the terminal has got another size.
Keys == CursorKeys \cup {"tab", "enter", "backspace", "other", "resize"}

\* The last condition of the chain is an assignment and true for every key.
Handle(p, k) ==
    CASE k \in CursorKeys -> {panel_clamp([p EXCEPT !.selected = Moves(p)[k]], rows - 2)}
      [] k = "tab" -> {p}
      [] k = "enter" -> panel_enter(p)
      [] OTHER -> panel_up(p)

\* The new height is known to the next turn of the loop, which draws.
Press(k) ==
    /\ running
    /\ rows' \in IF k = "resize" THEN Heights ELSE {rows}
    /\ active_left' = IF k = "tab" THEN ~active_left ELSE active_left
    /\ \E q \in Handle(panel[Active], k) :
          panel' = [s \in Sides |-> panel_draw(IF s = Active THEN q ELSE panel[s], rows')]
    /\ UNCHANGED <<fileSystem, running>>

Quit == /\ running /\ running' = FALSE
        /\ panel' = [s \in Sides |-> [panel[s] EXCEPT !.entries = <<>>]]
        /\ UNCHANGED <<fileSystem, active_left, rows>>

----------------------------------------------------------------------------
(* Other processes *)

Change == changes < MaxChanges /\ changes' = changes + 1
          /\ running /\ UNCHANGED <<panel, active_left, rows, running>>

Below(path) == {q \in dirs \cup files :
                   Len(q) >= Len(path) /\ SubSeq(q, 1, Len(path)) = path}
Remove(path) ==
    /\ Change /\ ~is_root(path)
    /\ dirs' = dirs \ Below(path) /\ files' = files \ Below(path)

Create(d, n) ==
    /\ Change /\ Len(d) < MaxDepth /\ join_path(d, n) \notin dirs \cup files
    /\ \/ dirs' = dirs \cup {join_path(d, n)} /\ UNCHANGED files
       \/ files' = files \cup {join_path(d, n)} /\ UNCHANGED dirs

PanelNext == \/ \E k \in Keys : Press(k)
        \/ Quit
        \/ \E path \in dirs \cup files : Remove(path)
        \/ \E d \in dirs, n \in Names : Create(d, n)
PanelSpec == PanelInit /\ [][PanelNext]_panelVars

----------------------------------------------------------------------------
(* Properties *)

\* Every variable keeps its type.
TypeOK ==
    /\ dirs \subseteq Paths /\ files \subseteq Paths /\ changes \in 0..MaxChanges
    /\ panel \in [Sides -> Panel]
    /\ active_left \in BOOLEAN /\ running \in BOOLEAN /\ rows \in Heights

\* Whatever was pressed and however the terminal was resized, both panels keep
\* their cursor and their scroll within their list.  On a terminal of three lines
\* or more the entry under the cursor is on the screen, and no row of the list
\* stays empty while entries are scrolled out of sight above it.  On one or two
\* lines there is no row left for an entry: the loop prints one all the same, and
\* the help line covers it or the window ends above it.
Within(p) == IF Count(p) = 0 THEN p.selected = 0 /\ p.scroll = 0
             ELSE p.selected \in 0..(Count(p) - 1) /\ p.scroll \in 0..p.selected
Visible(p, height) ==
    /\ Within(p)
    /\ Count(p) > 0 /\ height > 2 =>
           /\ \E y \in 1..(height - 2) : Window(p, height)[y] = p.selected + 1
           /\ p.scroll > 0 => \A y \in 1..(height - 2) : Window(p, height)[y] # 0
CursorVisible == running => \A s \in Sides : Visible(panel[s], rows)

\* A panel moves only by a key of its own, one level up or to the directory
\* under its cursor, and then its list is that of the directory in its title at
\* that moment, or empty when this cannot be read: never the list of the place
\* it came from, however stale the entry was.
ShowsItsDirectory ==
    [][running' =>
        \A s \in Sides : LET p == panel[s]  q == panel'[s] IN
            <<q.cwd, q.entries>> # <<p.cwd, p.entries>> =>
                /\ s = Active
                /\ \/ q.cwd = parent_of(p.cwd)
                   \/ \E e \in {p.entries[p.selected + 1]} : e.dir /\ q.cwd = Append(p.cwd, e.name)
                /\ IF opendir(q.cwd) THEN q.entries \in load_entries(q.cwd) ELSE q.entries = <<>>
      ]_panelVars
=============================================================================
