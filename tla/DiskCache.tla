----------------------------- MODULE DiskCache -----------------------------
(***************************************************************************)
(* What the files of the disk cache promise to diskcache::refresh: a       *)
(* register per url that anybody may fill or lose at any time, whose reads *)
(* take effect when the file is opened.  The names, the descriptors and    *)
(* the crashes that make this hard are in module DiskCacheStore, which     *)
(* implements this specification.                                          *)
(***************************************************************************)
CONSTANTS
    Threads,    \* the threads of every process using the cache
    Keys,       \* hashed urls
    Replies,    \* what upstream may answer
    None        \* no reply, no key

VARIABLES
    offered,    \* offered[k]: the replies that were to be cached for k
    shelf,      \* shelf[k]: the reply the cache holds for k, or None
    reading,    \* reading[t]: the key t is reading and what was there at the start
    answer      \* the last reply a read returned, with its key

vars == <<offered, shelf, reading, answer>>

NoRead == [key |-> None, reply |-> None]

Init == /\ offered = [k \in Keys |-> {}]
        /\ shelf = [k \in Keys |-> None]
        /\ reading = [t \in Threads |-> NoRead]
        /\ answer = NoRead

Offer(k, r) == /\ offered' = [offered EXCEPT ![k] = @ \cup {r}]
               /\ UNCHANGED <<shelf, reading, answer>>

\* A reply that was offered for k appears in the cache, whole.
Put(k, r) == /\ r \in offered[k]
             /\ shelf' = [shelf EXCEPT ![k] = r]
             /\ UNCHANGED <<offered, reading, answer>>

\* Eviction, quarantine, a failed replacement: a cache may forget.
Drop(k) == /\ shelf' = [shelf EXCEPT ![k] = None]
           /\ UNCHANGED <<offered, reading, answer>>

BeginRead(t, k) == /\ reading[t] = NoRead
                   /\ reading' = [reading EXCEPT ![t] = [key |-> k, reply |-> shelf[k]]]
                   /\ UNCHANGED <<offered, shelf, answer>>

\* A hit returns what was there when the read began.
Hit(t) == /\ reading[t].reply # None
          /\ answer' = reading[t]
          /\ reading' = [reading EXCEPT ![t] = NoRead]
          /\ UNCHANGED <<offered, shelf>>

\* A read may always miss; so may one whose thread is killed.
Miss(t) == /\ reading' = [reading EXCEPT ![t] = NoRead]
           /\ UNCHANGED <<offered, shelf, answer>>

Next == \/ \E k \in Keys, r \in Replies : Offer(k, r) \/ Put(k, r)
        \/ \E k \in Keys : Drop(k)
        \/ \E t \in Threads, k \in Keys : BeginRead(t, k)
        \/ \E t \in Threads : Hit(t) \/ Miss(t)

Spec == Init /\ [][Next]_vars
=============================================================================
