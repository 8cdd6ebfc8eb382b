---------------------------- MODULE RpcBlocklist ----------------------------
(***************************************************************************)
(* remove_ip_idx of common.c: one sweep of the array of blocked addresses, *)
(* for an address or, given none, for the entries whose time is over.  An  *)
(* entry is <<address, whether its time is over>>.                         *)
(***************************************************************************)
EXTENDS Naturals, Sequences, SequencesExt

CONSTANTS
    Ips,            \* addresses
    Containing,     \* Containing[a]: the addresses that contain a as a substring
    MaxIps          \* bound on the entries of the list

ASSUME BlocklistAssumption ==
    /\ "NULL" \notin Ips
    /\ Containing \in [Ips -> SUBSET Ips]
    /\ MaxIps \in Nat

VARIABLES
    given,      \* the list that the caller passes (history)
    ip,         \* the address to remove, or "NULL"
    list,       \* the array
    num,        \* num_of_ips
    idx,        \* index of the last entry removed (0: none)
    next        \* where the sweep is
blocklistVars == <<given, ip, list, num, idx, next>>

Entries == Ips \X BOOLEAN

BlocklistTypeOK ==
    /\ given \in Seq(Entries)
    /\ ip \in Ips \cup {"NULL"}
    /\ list \in Seq(Entries) /\ Len(list) = Len(given)
    /\ num \in 0..Len(given)
    /\ idx \in 0..Len(given)
    /\ next \in Nat \ {0}
-----------------------------------------------------------------------------
Hit(e) == IF ip = "NULL" THEN e[2] ELSE e[1] \in Containing[ip]

\* mutant: the loop ends one entry early, and the last one is lost
ShiftShort(array, first, last) ==
    [j \in 1..Len(array) |-> IF first <= j /\ j + 1 < last THEN array[j + 1] ELSE array[j]]

\* the entries after the first one move up; the last place keeps its entry
Shift(array, first, last) ==
    [j \in 1..Len(array) |-> IF first <= j /\ j < last THEN array[j + 1] ELSE array[j]]

\* an entry that is meant: the one after it moves to its place and is not looked at
RemoveIp ==
    /\ next <= num
    /\ Hit(list[next])
    /\ idx' = next
    /\ list' = Shift(list, next, num)
    /\ num' = num - 1
    /\ next' = next + 1
    /\ UNCHANGED <<given, ip>>

KeepIp ==
    /\ next <= num
    /\ ~Hit(list[next])
    /\ next' = next + 1
    /\ UNCHANGED <<given, ip, list, num, idx>>

BlocklistInit ==
    /\ given \in BoundedSeq(Entries, MaxIps)
    /\ ip \in Ips \cup {"NULL"}
    /\ list = given
    /\ num = Len(given)
    /\ idx = 0
    /\ next = 1

BlocklistNext == RemoveIp \/ KeepIp
BlocklistSpec == BlocklistInit /\ [][BlocklistNext]_blocklistVars
-----------------------------------------------------------------------------
(* Properties *)

\* the entries left are those given at places h, in the order given
LeftAt(h) ==
    /\ h \in [1..num -> 1..Len(given)]
    /\ \A a, b \in 1..num : a < b => h[a] < h[b]
    /\ \A a \in 1..num : list[a] = given[h[a]]

\* At every point of a sweep the array holds every entry that is not meant, once and in the
\* order given, and nothing that was not given; and a sweep that returns none found none
\* that was meant, one that returns an index removed one.  (One sweep may leave entries
\* that are meant: it steps over the entry after a removed one.)
SweepKeeps ==
    /\ \E h \in [1..num -> 1..Len(given)] :
          LeftAt(h) /\ \A b \in 1..Len(given) : ~Hit(given[b]) => \E a \in 1..num : h[a] = b
    /\ next > num => (idx = 0 <=> \A b \in 1..Len(given) : ~Hit(given[b]))
    /\ idx # 0 <=> num < Len(given)
=============================================================================
