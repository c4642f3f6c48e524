------------------------------- MODULE ReadGroup -------------------------------
(***************************************************************************)
(* Reader.ReadGroup: the registers of one polling group are covered with   *)
(* Modbus read windows (registers.Clusterize), every window is read, and   *)
(* each register is cut out of the words its window returned               *)
(* (decodeClusterInto).  A window that fails costs the registers in it and *)
(* no others.                                                              *)
(*                                                                         *)
(* Registers are visited in the order of their addresses: the one with the *)
(* lowest address among those left is what sort.Slice puts next.  One      *)
(* cycle of one group is modelled: the next one starts from nothing.       *)
(***************************************************************************)
EXTENDS CatalogLoad, Integers, FiniteSets

CONSTANT GapThreshold  \* gapThreshold (10)

ASSUME GapAssumption == GapThreshold \in Nat

VARIABLES
    regs,     \* the group's registers with an address
    rest,     \* entries still to be placed
    windows,  \* clusters
    curEnd,   \* curEnd
    next,     \* the window to be read next
    failed,   \* indexes of windows whose read failed
    out       \* registers ReadGroup returns a value for

readVars == <<regs, rest, windows, curEnd, next, failed, out>>

End(r) == r.key.addr + r.length

Larger(a, b) == IF a >= b THEN a ELSE b

ReadInit ==
    /\ regs = {} /\ rest = {} /\ windows = <<>> /\ curEnd = 0
    /\ next = 1 /\ failed = {} /\ out = {}

\* parse has returned the catalog.
CatalogReady == file = <<>> /\ ~refused

\* A cycle of the group begins, with the registers Clusterize sees.
Begin(g) ==
    /\ CatalogReady /\ windows = <<>> /\ rest = {}
    /\ regs' = {r \in ByGroup(g) : Modbus(r)}
    /\ rest' = regs'
    /\ UNCHANGED <<windows, curEnd, next, failed, out>>

-----------------------------------------------------------------------------
(* Clusterize *)

Lowest(e) == \A r \in rest : e.key.addr <= r.key.addr

Last == windows[Len(windows)]

\* MUTANT: the window ends where its newest member does.
WordsToNewest(e) == End(e) - Last.start

\* Words the last window needs to hold e as well: e may lie inside a longer
\* register before it.
Words(e) == Larger(curEnd, End(e)) - Last.start

\* MUTANT: a hole of exactly gapThreshold words already splits.
MergesBelow(e) ==
    /\ windows # <<>>
    /\ e.key.addr - curEnd < GapThreshold
    /\ Words(e) <= MaxReadWords

\* e is close enough to the last window and still fits it.
Merges(e) ==
    /\ windows # <<>>
    /\ e.key.addr - curEnd <= GapThreshold
    /\ Words(e) <= MaxReadWords

Merge(e) ==
    /\ Merges(e)
    /\ windows' = [windows EXCEPT ![Len(windows)] =
            [start |-> @.start, count |-> Words(e), members |-> @.members \cup {e}]]
    /\ curEnd' = Last.start + Words(e)

Open(e) ==
    /\ ~Merges(e)
    /\ windows' = Append(windows, [start |-> e.key.addr, count |-> e.length, members |-> {e}])
    /\ curEnd' = End(e)

Place ==
    \E e \in rest :
        /\ Lowest(e)
        /\ Merge(e) \/ Open(e)
        /\ rest' = rest \ {e}
        /\ UNCHANGED <<regs, next, failed, out>>

-----------------------------------------------------------------------------
(* ReadGroup *)

\* decodeClusterInto: a register that is not wholly inside the words of its
\* window is an error, not a value.
Cut(w) ==
    {m \in w.members : m.key.addr >= w.start /\ End(m) - w.start <= w.count}

ReadWindow ==
    /\ rest = {} /\ next <= Len(windows)
    /\ \/ /\ out' = out \cup Cut(windows[next])
          /\ next' = next + 1
          /\ UNCHANGED failed
       \/ /\ failed' = failed \cup {next}
          /\ next' = next + 1
          /\ UNCHANGED out
    /\ UNCHANGED <<regs, rest, windows, curEnd>>

ReadNext == (\E g \in Elements(groups) : Begin(g)) \/ Place \/ ReadWindow

-----------------------------------------------------------------------------
(* Properties *)

Members == UNION {windows[i].members : i \in DOMAIN windows}

\* Whatever catalog the loader lets through, every window is a legal FC03
\* request inside the address space; it reaches exactly from its first register
\* to the end of its longest-reaching one, so that every member is cut out of
\* words that were read; no register is lost, none is in two windows, and at
\* the end of a cycle the only ones without a value are those whose own window
\* failed.
Windows ==
    /\ \A i \in DOMAIN windows :
        LET w == windows[i] IN
        /\ w.count \in 1..MaxReadWords
        /\ w.start + w.count <= AddressSpace
        /\ \A m \in w.members : w.start <= m.key.addr /\ End(m) <= w.start + w.count
        /\ \E m \in w.members : m.key.addr = w.start
        /\ \E m \in w.members : End(m) = w.start + w.count
    /\ Members = regs \ rest
    /\ \A i, j \in DOMAIN windows :
        i # j => windows[i].members \cap windows[j].members = {}
    /\ rest = {} /\ next > Len(windows) =>
        \A r \in regs \ out : \E i \in failed : r \in windows[i].members

-----------------------------------------------------------------------------
(* Reference: the fewest windows any division of the group could do with *)

Least(S) == CHOOSE n \in S : \A m \in S : n <= m

\* The registers from address a up to, and without, address b.
Between(a, b) == {r \in regs : a <= r.key.addr /\ r.key.addr < b}

Reach(S) == CHOOSE e \in {End(r) : r \in S} : \A r \in S : End(r) <= e

\* One read may cover S: it is short enough, and no hole in it is too long.
Coverable(S) ==
    /\ Reach(S) - Least({r.key.addr : r \in S}) <= MaxReadWords
    /\ \A r \in S :
        LET before == {s \in S : s.key.addr < r.key.addr} IN
        before # {} => r.key.addr - Reach(before) <= GapThreshold

\* Divisions are named by the addresses their windows begin at.
Divides(starts) ==
    /\ Least({r.key.addr : r \in regs}) \in starts
    /\ \A a \in starts :
        LET after == {b \in starts : b > a} IN
        Coverable(Between(a, IF after = {} THEN AddressSpace ELSE Least(after)))

\* Clusterize issues the smallest possible number of requests per cycle.
FewestRequests ==
    rest = {} /\ next = 1 /\ regs # {} =>
        Len(windows) =
            Least({Cardinality(s) :
                s \in {t \in SUBSET {r.key.addr : r \in regs} : Divides(t)}})
=============================================================================
