---------------------------- MODULE PrimeSieve ----------------------------
(***************************************************************************)
(* The prime sieve of src/symengine/prime_sieve.cpp.                       *)
(*                                                                         *)
(* One list of primes is shared by every caller in the process: each       *)
(* iterator remembers only how many primes it has returned, generate_primes*)
(* extends the list, and clear() - which also runs in the destructor of    *)
(* every iterator and at the end of generate_primes, unless set_clear      *)
(* turned it off - cuts the list back to ten primes while other iterators  *)
(* are in the middle of it.  An iterator that has been overtaken by a      *)
(* clear() reads _primes[_index - 1] beyond the end of the vector: the     *)
(* memory is still the vector's, so the list is modelled with its memory.  *)
(*                                                                         *)
(* _extend sieves segments of _sieve_size odd numbers.  Its last odd       *)
(* number can have the index _sieve_size, one past the end of is_prime;    *)
(* Beyond is what that byte of memory can hold.                            *)
(***************************************************************************)
EXTENDS Integers, Sequences, FiniteSets, SequencesExt, Ordering

CONSTANTS
  Iters,      \* the iterators there can be at one time
  Limits,     \* the limits of iterators; 0 is an iterator without limit
  Requests,   \* the limits that are passed to generate_primes
  Sizes,      \* the segment sizes that callers set
  Beyond,     \* what the byte after is_prime can hold: a subset of BOOLEAN
  Word,       \* unsigned arithmetic is modulo Word
  MaxPrimes   \* bound on the number of primes an iterator returns

First == <<2, 3, 5, 7, 11, 13, 17, 19, 23, 29>>

ASSUME SieveAssumption ==
  /\ IsFiniteSet(Iters)
  /\ Limits \subseteq 0..(Word - 2)
  /\ Requests \subseteq 1..(Word - 2)
  /\ Sizes \subseteq Nat \ {0}
  /\ Beyond \subseteq BOOLEAN /\ Beyond # {}
  /\ Word \in Nat /\ Word > 59
  /\ MaxPrimes \in Nat

VARIABLES
  memory,    \* the memory of sieve_primes(), up to what was ever written
  size,      \* sieve_primes().size()
  clearing,  \* Sieve::_clear
  segment,   \* Sieve::_sieve_size
  iter,      \* iter[i]: _index and _limit of a live iterator and the last
             \* value it returned, or Dead
  generated  \* the request to generate_primes that has just returned, with
             \* what it appended to the caller's vector, or NoRequest

vars == <<memory, size, clearing, segment, iter, generated>>

Dead == [live |-> FALSE, index |-> 0, limit |-> 0, last |-> 0]
Fresh(limit) == [live |-> TRUE, index |-> 0, limit |-> limit, last |-> 0]

NoRequest == [limit |-> 0, result |-> <<>>]

primes == SubSeq(memory, 1, size)

Init ==
  /\ memory = First
  /\ size = Len(First)
  /\ clearing = TRUE
  /\ segment \in Sizes
  /\ iter = [i \in Iters |-> Dead]
  /\ generated = NoRequest

-----------------------------------------------------------------------------
(* _extend                                                                 *)

(* floor(sqrt(n))                                                          *)
SquareRoot(n) == CHOOSE r \in 0..n : r * r <= n /\ n < (r + 1) * (r + 1)

(* The indices of is_prime that one known prime n marks in the segment     *)
(* that begins at start: the odd multiples of n from the first one on.     *)
Marks(n, start, finish) ==
  LET next == (start \div n + 1) * n
      m == IF next % 2 = 0 THEN next + n ELSE next
  IN {(m - start) \div 2 + j * n : j \in 0..((finish - m) \div (2 * n))}

Marked(known, start, finish) ==
  UNION {IF known[k] * known[k] <= finish THEN Marks(known[k], start, finish) ELSE {} :
           k \in 2..Len(known)}

(* The sieve at the beginning of a segment: the list so far, where the     *)
(* segment starts, and the byte beyond is_prime, which is not set at the   *)
(* beginning of a segment, but can be cleared with the others.             *)
Sieving == [list : Seq(Nat), start : Nat, byte : BOOLEAN]

(* One segment: its odd numbers that are not marked are appended.          *)
Sifted(at, limit) ==
  LET finish == IF at.start + 2 * segment + 1 < limit
                  THEN at.start + 2 * segment + 1 ELSE limit
      marked == Marked(at.list, at.start, finish)
      odd == [k \in 1..((finish - at.start + 1) \div 2) |-> at.start + 2 * k - 1]
      not_prime == marked \cup (IF at.byte THEN {} ELSE {segment})
      is_prime == DOMAIN odd \ {k + 1 : k \in not_prime}
  IN [list |-> at.list \o Selected(odd, is_prime),
      start |-> at.start + 2 * segment,
      byte |-> at.byte /\ segment \notin marked]

(* The segments from start on.  g is the byte beyond is_prime.             *)
Sieved(known, start, limit, g) ==
  LET sieved[at \in Sieving] ==
        IF at.start > limit THEN at.list ELSE sieved[Sifted(at, limit)]
  IN sieved[[list |-> known, start |-> start, byte |-> g]]

(* A slip: the primes up to the square root are taken to be known.         *)
ExtendedNoRoot(known, limit, g) ==
  LET start == Last(known) + 1
  IN IF limit <= start THEN known ELSE Sieved(known, start, limit, g)

(* _extend calls itself to know the primes up to the square root first.    *)
Extended(known, limit, g) ==
  LET start == Last(known) + 1
      extended[l \in 0..limit] ==
        LET root == SquareRoot(l)
            base == IF root >= start THEN extended[root] ELSE known
        IN IF l <= start THEN known
           ELSE Sieved(base, Last(base) + 1, l, g)
  IN extended[limit]

(* The vector after _extend(limit): push_back overwrites the memory beyond *)
(* size, or appends to it.                                                 *)
Extend(limit, g) ==
  \E list \in {Extended(primes, limit, g)} :
     /\ size' = Len(list)
     /\ memory' = list \o SubSeq(memory, Len(list) + 1, Len(memory))

-----------------------------------------------------------------------------

(* _primes.erase(begin + 10, end): the memory keeps what it holds.         *)
Cleared == size' = Len(First)

(* A slip: the vector gives its memory back.                               *)
ClearShrinks ==
  /\ Cleared
  /\ memory' = First
  /\ generated' = NoRequest
  /\ UNCHANGED <<clearing, segment, iter>>

Clear ==
  /\ Cleared
  /\ generated' = NoRequest
  /\ UNCHANGED <<memory, clearing, segment, iter>>

SetClear(on) ==
  /\ clearing' = on
  /\ generated' = NoRequest
  /\ UNCHANGED <<memory, size, segment, iter>>

SetSieveSize(s) ==
  /\ segment' = s
  /\ generated' = NoRequest
  /\ UNCHANGED <<memory, size, clearing, iter>>

(* A slip: the primes below the limit are copied, not those up to it.      *)
GeneratePrimesBelow(limit, g) ==
  \E list \in {Extended(primes, limit, g)} :
     /\ memory' = list \o SubSeq(memory, Len(list) + 1, Len(memory))
     /\ size' = IF clearing THEN Len(First) ELSE Len(list)
     /\ generated' = [limit |-> limit,
                      result |-> Selected(list, {k \in DOMAIN list : list[k] < limit})]
     /\ UNCHANGED <<clearing, segment, iter>>

(* generate_primes copies the primes up to limit, then clears.             *)
GeneratePrimes(limit, g) ==
  \E list \in {Extended(primes, limit, g)} :
     /\ memory' = list \o SubSeq(memory, Len(list) + 1, Len(memory))
     /\ size' = IF clearing THEN Len(First) ELSE Len(list)
     /\ generated' = [limit |-> limit,
                      result |-> Selected(list, {k \in DOMAIN list : list[k] <= limit})]
     /\ UNCHANGED <<clearing, segment, iter>>

NewIterator(i, limit) ==
  /\ ~iter[i].live
  /\ iter' = [iter EXCEPT ![i] = Fresh(limit)]
  /\ generated' = NoRequest
  /\ UNCHANGED <<memory, size, clearing, segment>>

(* ~iterator clears the list that the other iterators are reading.         *)
DestroyIterator(i) ==
  /\ iter[i].live
  /\ iter' = [iter EXCEPT ![i] = Dead]
  /\ size' = IF clearing THEN Len(First) ELSE size
  /\ generated' = NoRequest
  /\ UNCHANGED <<memory, clearing, segment>>

(* next_prime: the list is long enough ...                                 *)
NextKnown(i) ==
  /\ iter[i].live /\ iter[i].index < MaxPrimes
  /\ iter[i].index < size
  /\ iter' = [iter EXCEPT ![i].index = @ + 1,
                          ![i].last = memory[iter[i].index + 1]]
  /\ generated' = NoRequest
  /\ UNCHANGED <<memory, size, clearing, segment>>

(* ... or has to be extended, to twice the last prime this iterator        *)
(* returned, which it looks up in the list; or there is no prime left      *)
(* below the limit and the answer is just above it.                        *)
ExtendTo(i) ==
  LET double == (memory[iter[i].index] * 2) % Word
  IN IF iter[i].limit > 0 /\ iter[i].limit < double THEN iter[i].limit ELSE double

(* Slips: an overtaken iterator starts again at the end of the list; the   *)
(* iterator stops at the limit itself.                                     *)
NextExtendCatchUp(i, g) ==
  /\ iter[i].live /\ iter[i].index < MaxPrimes
  /\ iter[i].index >= size
  /\ Extend(ExtendTo(i), g)
  /\ iter' = IF iter[i].index >= size'
               THEN [iter EXCEPT ![i].last = (iter[i].limit + 1) % Word]
               ELSE [iter EXCEPT ![i].index = size + 1,
                                 ![i].last = memory'[size + 1]]
  /\ generated' = NoRequest
  /\ UNCHANGED <<clearing, segment>>

NextExtendToLimit(i, g) ==
  /\ iter[i].live /\ iter[i].index < MaxPrimes
  /\ iter[i].index >= size
  /\ Extend(ExtendTo(i), g)
  /\ iter' = IF iter[i].index >= size'
               THEN [iter EXCEPT ![i].last = iter[i].limit]
               ELSE [iter EXCEPT ![i].index = @ + 1,
                                 ![i].last = memory'[iter[i].index + 1]]
  /\ generated' = NoRequest
  /\ UNCHANGED <<clearing, segment>>

NextExtend(i, g) ==
  /\ iter[i].live /\ iter[i].index < MaxPrimes
  /\ iter[i].index >= size
  /\ Extend(ExtendTo(i), g)
  /\ iter' = IF iter[i].index >= size'
               THEN [iter EXCEPT ![i].last = (iter[i].limit + 1) % Word]
               ELSE [iter EXCEPT ![i].index = @ + 1,
                                 ![i].last = memory'[iter[i].index + 1]]
  /\ generated' = NoRequest
  /\ UNCHANGED <<clearing, segment>>

NextPrime(i) ==
  \/ NextKnown(i)
  \/ \E g \in Beyond : NextExtend(i, g)

Next ==
  \/ Clear
  \/ \E on \in BOOLEAN : SetClear(on)
  \/ \E s \in Sizes : SetSieveSize(s)
  \/ \E limit \in Requests, g \in Beyond : GeneratePrimes(limit, g)
  \/ \E i \in Iters, limit \in Limits : NewIterator(i, limit)
  \/ \E i \in Iters : DestroyIterator(i) \/ NextPrime(i)

(* The loops over an iterator, while ((p = pi.next_prime()) <= limit),     *)
(* call it again until it is past the limit.                               *)
Looping(i) == iter[i].live /\ iter[i].limit > 0 /\ iter[i].last <= iter[i].limit

Spec ==
  /\ Init /\ [][Next]_vars
  /\ \A i \in Iters : WF_vars(Looping(i) /\ NextPrime(i))

-----------------------------------------------------------------------------
(* Properties.                                                             *)

(* What is a prime, by trial division.                                     *)
IsPrime(n) == n > 1 /\ \A d \in 2..(n - 1) : d * d <= n => n % d # 0
Primes == {n \in 1..(Word - 1) : IsPrime(n)}

(* Bertrand's postulate: there is a prime between a number and its double. *)
(* That next_prime finds a further prime below twice the last one rests on *)
(* it.                                                                     *)
Bertrand == \A n \in 1..(Word - 1) : \E p \in (n + 1)..(2 * n) : IsPrime(p)

(* No iterator gets to a prime whose double wraps.                         *)
NoWrap == Cardinality({p \in Primes : 2 * p < Word}) >= MaxPrimes

(* s has all the primes up to limit, in order and each once.               *)
ListsPrimes(s, limit) ==
  /\ \A k \in 1..(Len(s) - 1) : s[k] < s[k + 1]
  /\ ToSet(s) = {p \in Primes : p <= limit}

(* The shared memory always holds the primes in order, without a gap or a  *)
(* repetition, whatever clears, extensions and changes of the segment size *)
(* came before: also where it is beyond the end of the vector.             *)
MemoryIsPrimes == ListsPrimes(memory, Last(memory))

(* next_prime looks at the prime before the one it is asked for, which a   *)
(* clear() can have put beyond the end of the vector: it never reads       *)
(* memory that does not hold that prime.                                   *)
NoWildRead ==
  \A i \in Iters : iter[i].live => iter[i].index <= Len(memory)

(* An iterator returns every prime in order, one per call, however its     *)
(* calls are interleaved with other iterators, their destruction and       *)
(* clear(); it stays where it is only when none is left up to its limit.   *)
Advanced(i) ==
  /\ iter'[i].index = iter[i].index + 1
  /\ iter'[i].last \in Primes
  /\ Cardinality({p \in Primes : p <= iter'[i].last}) = iter'[i].index

PastLimit(i) ==
  /\ iter'[i].index = iter[i].index
  /\ iter[i].limit > 0
  /\ Cardinality({p \in Primes : p <= iter[i].limit}) <= iter[i].index

IteratorExact ==
  [][\A i \in Iters :
        iter'[i] # iter[i] /\ iter[i].live /\ iter'[i].live
          => Advanced(i) \/ PastLimit(i)]_vars

(* generate_primes "holds all primes up to the limit (including)".         *)
GeneratedExact ==
  generated.limit > 0 => ListsPrimes(generated.result, generated.limit)

(* A loop over a bounded iterator ends: past its last prime the iterator   *)
(* answers with something greater than the limit.                          *)
LoopsEnd ==
  \A i \in Iters : Looping(i) ~> ~Looping(i)

=============================================================================
