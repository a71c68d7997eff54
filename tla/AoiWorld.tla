------------------------------ MODULE AoiWorld ------------------------------
(* AOIWorld (kabisrc/net/game/AOI.cpp): the world cut into a grid, each cell *)
(* a list of the players in it, and the GameRoles that are put there         *)
(* (game_role.cpp).  The lists hold shared_ptrs.  add_player is given a copy *)
(* of the program's; GameRole::init and fini make one of the bare this, whose*)
(* count knows nothing of the others.  A list is the set of its entries, each*)
(* with its place: the places grow to the back and need not be dense.        *)
EXTENDS Integers, Sequences, FiniteSets, SequencesExt

CONSTANTS
    Roles,
    XBegin, XEnd, YBegin, YEnd,     \* the world
    XCount, YCount,                 \* its columns and rows
    MaxPlaces                       \* bound: the places of a cell's list

ASSUME WorldSizes ==
    /\ IsFiniteSet(Roles)
    /\ {XBegin, XEnd, YBegin, YEnd} \subseteq Nat
    /\ {XCount, YCount} \subseteq Nat \ {0}
    /\ XEnd - XBegin >= XCount /\ YEnd - YBegin >= YCount
    /\ MaxPlaces \in Nat

XWidth == (XEnd - XBegin) \div XCount
YWidth == (YEnd - YBegin) \div YCount

Positions == [x : XBegin .. XEnd - 1, y : YBegin .. YEnd - 1]
Cells     == 0 .. XCount * YCount - 1

VARIABLES
    pos,        \* where each role is made
    made,       \* the roles made so far
    held,       \* those of which the program has the s_ptr it was made with
    grids,      \* m_grids: whom each cell lists, and if by a count of its own
    deletes,    \* how many times each role was deleted
    taken,      \* the roles of which init or fini has run
    corrupt     \* memory was used that is not what the code takes it for

worldVars == <<pos, made, held, grids, deletes, taken, corrupt>>

Entries == [role : Roles, own : BOOLEAN, at : 1 .. MaxPlaces]

WorldTypeOK ==
    /\ pos \in [Roles -> Positions]
    /\ made \in SUBSET Roles /\ held \in SUBSET made /\ taken \in SUBSET made
    /\ grids \in [Cells -> SUBSET Entries]
    /\ deletes \in [Roles -> Nat]
    /\ corrupt \in BOOLEAN

-----------------------------------------------------------------------------
(* The cell of a position: y_begin is not taken off.                         *)
CellOf(r) == (pos[r].x - XBegin) \div XWidth + (pos[r].y \div YWidth) * XCount

Column(g) == g % XCount
Row(g)    == g \div XCount

(* The cells get_srd_players looks into, in the order in which their players *)
(* end up in its list: each is put in front of those before it.  The cell    *)
(* above is taken with the one above left, the one below with below right.   *)
LookedAround(g) ==
    LET left  == Column(g) > 0
        right == Column(g) < XCount - 1
        up    == Row(g) > 0
        down  == Row(g) < YCount - 1
        If(cond, cells) == IF cond THEN cells ELSE <<>>
    IN  If(right /\ down, <<g + XCount, g + 1 + XCount>>)
          \o If(left /\ down, <<g - 1 + XCount>>)
          \o If(right, <<g + 1>>) \o If(left, <<g - 1>>)
          \o If(right /\ up, <<g + 1 - XCount>>)
          \o If(left /\ up, <<g - XCount, g - 1 - XCount>>)
LookedWithoutDown(g) ==
    SelectSeq(LookedAround(g), LAMBDA h : h # g + XCount)
Looked(g) == LookedAround(g)

(* A cell's list: entry k has k - 1 others in front of it.                   *)
ListOf(g) ==
    [k \in 1 .. Cardinality(grids[g]) |->
        CHOOSE e \in grids[g] :
            Cardinality({d \in grids[g] : d.at < e.at}) = k - 1]
SrdPlayers(r) == LET cells == Looked(CellOf(r))
                 IN  FlattenSeq([i \in DOMAIN cells |-> ListOf(cells[i])])

(* The roles in that list.                                                   *)
Sight(r) == UNION {{e.role : e \in grids[g]} :
                      g \in Cells \cap Range(Looked(CellOf(r)))}

-----------------------------------------------------------------------------
WorldInit ==
    /\ pos \in [Roles -> Positions]
    /\ made = {} /\ held = {} /\ taken = {}
    /\ grids = [g \in Cells |-> {}]
    /\ deletes = [r \in Roles |-> 0]
    /\ corrupt = FALSE

(* make_shared<GameRole>, by the program or by rpcChannel's constructor.     *)
Make(r) ==
    /\ ~corrupt /\ r \notin made
    /\ made' = made \cup {r} /\ held' = held \cup {r}
    /\ UNCHANGED <<pos, grids, deletes, taken, corrupt>>

(* A role is called through the pointer the program holds.                   *)
Usable(r) == ~corrupt /\ r \in held /\ deletes[r] = 0

(* push_back.                                                                *)
AtBack(g, at) ==
    /\ \A e \in grids[g] : e.at < at
    /\ at = 1 \/ \E e \in grids[g] : e.at = at - 1
Listed(r, own) ==
    IF CellOf(r) \in Cells
    THEN /\ \E at \in 1 .. MaxPlaces :
              /\ AtBack(CellOf(r), at)
              /\ grids' = [grids EXCEPT ![CellOf(r)] =
                             @ \cup {[role |-> r, own |-> own, at |-> at]}]
         /\ UNCHANGED corrupt
    ELSE corrupt' = TRUE /\ UNCHANGED grids

AddPlayer(r) ==
    /\ Usable(r)
    /\ Listed(r, FALSE)
    /\ UNCHANGED <<pos, made, held, deletes, taken>>

(* GameRole::init                                                            *)
InitRole(r) ==
    /\ Usable(r)
    /\ Listed(r, TRUE)
    /\ taken' = taken \cup {r}
    /\ UNCHANGED <<pos, made, held, deletes>>

(* list::remove drops every entry of the role; a count of its own that goes  *)
(* with an entry deletes the role.                                           *)
OwnEntries(r) == {e \in grids[CellOf(r)] : e.role = r /\ e.own}
Unlisted(r, more) ==
    IF CellOf(r) \in Cells
    THEN /\ grids' = [grids EXCEPT ![CellOf(r)] =
                        {e \in @ : e.role # r}]
         /\ deletes' = [deletes EXCEPT ![r] =
                        @ + Cardinality(OwnEntries(r)) + more]
         /\ UNCHANGED corrupt
    ELSE corrupt' = TRUE /\ UNCHANGED <<grids, deletes>>

DelPlayer(r) ==
    /\ Usable(r)
    /\ Unlisted(r, 0)
    /\ UNCHANGED <<pos, made, held, taken>>

(* GameRole::fini: the pointer it makes for the call deletes the role too.   *)
FiniRole(r) ==
    /\ Usable(r)
    /\ Unlisted(r, 1)
    /\ taken' = taken \cup {r}
    /\ UNCHANGED <<pos, made, held>>

(* The program drops its pointer, rpcChannel's destructor the channel's: the *)
(* role goes unless a cell lists it by the same count.                       *)
ListedBy(r, own) ==
    \E g \in Cells : \E e \in grids[g] : e.role = r /\ e.own = own
DropAtOnce(r) ==
    /\ ~corrupt /\ r \in held
    /\ held' = held \ {r}
    /\ deletes' = [deletes EXCEPT ![r] = @ + 1]
    /\ UNCHANGED <<pos, made, grids, taken, corrupt>>
Drop(r) ==
    /\ ~corrupt /\ r \in held
    /\ held' = held \ {r}
    /\ deletes' = [deletes EXCEPT ![r] = IF ListedBy(r, FALSE) THEN @ ELSE @ + 1]
    /\ UNCHANGED <<pos, made, grids, taken, corrupt>>

(* The program goes on using a role that is deleted under its pointer.       *)
UseDeleted(r) ==
    /\ ~corrupt /\ r \in held /\ deletes[r] > 0
    /\ corrupt' = TRUE
    /\ UNCHANGED <<pos, made, held, grids, deletes, taken>>

(* get_srd_players: a list for the caller.                                   *)
LookAround(r) ==
    /\ Usable(r)
    /\ corrupt' = ~(Range(Looked(CellOf(r))) \subseteq Cells)
    /\ UNCHANGED <<pos, made, held, grids, deletes, taken>>

(* create_srd_players: the cells must exist, and the roles they list.        *)
CreateSrdPlayers(r) ==
    /\ Usable(r)
    /\ corrupt' = ~ /\ Range(Looked(CellOf(r))) \subseteq Cells
                    /\ \A s \in Sight(r) : deletes[s] = 0
    /\ UNCHANGED <<pos, made, held, grids, deletes, taken>>

WorldNext == \E r \in Roles :
    \/ Make(r) \/ AddPlayer(r) \/ InitRole(r) \/ DelPlayer(r) \/ FiniRole(r)
    \/ Drop(r) \/ UseDeleted(r) \/ LookAround(r) \/ CreateSrdPlayers(r)

WorldSpec == WorldInit /\ [][WorldNext]_worldVars

-----------------------------------------------------------------------------
(* A role sees whom the cells next to its own list, so that of two roles     *)
(* that are listed each sees the other or neither does - but for two in the  *)
(* same column at the left or right edge, where get_srd_players leaves out   *)
(* the cell above or below.  An error in one of its eight conditions would   *)
(* wrap a row around or show one role to the other and not the other to it.  *)
Adjacent(g, h) ==
    /\ g # h
    /\ Column(g) - Column(h) \in -1 .. 1
    /\ Row(g) - Row(h) \in -1 .. 1
AtEdge(g, h) == Column(g) = Column(h) /\ Column(g) \in {0, XCount - 1}

IsListed(r) == ListedBy(r, FALSE) \/ ListedBy(r, TRUE)
SightIsAdjacent ==
    \A r, s \in Roles :
        IsListed(r) /\ IsListed(s) /\ ~AtEdge(CellOf(r), CellOf(s)) =>
            (s \in Sight(r) <=> Adjacent(CellOf(r), CellOf(s)))

(* A role of which neither init nor fini has run lives as long as the program*)
(* or a cell holds it, and is deleted once: what is asked of shared_ptrs     *)
(* that add_player and the program share.  (Those of init and fini break it.)*)
AddedRolesStayAlive ==
    \A r \in made \ taken :
        deletes[r] = IF r \in held \/ IsListed(r) THEN 0 ELSE 1
=============================================================================
