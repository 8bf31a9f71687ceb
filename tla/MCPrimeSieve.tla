--------------------------- MODULE MCPrimeSieve ---------------------------
(***************************************************************************)
(* Two kinds of behaviours of PrimeSieve: iterators that are used at the   *)
(* same time, with short requests between their calls; and a list that     *)
(* only generate_primes extends, by every limit over a few segments and    *)
(* one so large that the primes up to its square root are not among the    *)
(* ten initial primes.                                                     *)
(***************************************************************************)
EXTENDS PrimeSieve

VARIABLE use    \* "iterators" or "requests"

EveryLimit == (30..46) \cup {962}
ListSizes == {3, 16, 500}

(* What the theorem about iterators assumes of the constants.              *)
ASSUME Premises == Bertrand /\ NoWrap

MCInit == Init /\ use \in {"iterators", "requests"}

RequestsNext ==
  \/ Clear
  \/ \E on \in BOOLEAN : SetClear(on)
  \/ \E s \in ListSizes : SetSieveSize(s)
  \/ \E limit \in EveryLimit, g \in Beyond : GeneratePrimes(limit, g)

MCNext ==
  /\ \/ use = "iterators" /\ Next
     \/ use = "requests" /\ RequestsNext
  /\ UNCHANGED use

MCSpec ==
  /\ MCInit /\ [][MCNext]_<<vars, use>>
  /\ \A i \in Iters : WF_vars(Looping(i) /\ NextPrime(i))

===========================================================================
