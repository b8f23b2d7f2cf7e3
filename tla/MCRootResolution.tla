--------------------------- MODULE MCRootResolution ---------------------------
(***************************************************************************)
(* The witness table of the code, and requests chosen for each algorithm.  *)
(* The last two witnesses do not fit the 32-bit integers of the model      *)
(* checker's products, and are skipped for every modulus below them.       *)
(***************************************************************************)
EXTENDS RootResolution

MCWitnesses == <<2, 325, 9375, 28178, 450775, 9780504, 1795265022>>

Request(adapter, q, n, type, w, p) ==
  [adapter : adapter, q : q, n : n, type : type, omega : w, psi : p]

\* All values to 2100, the next pseudoprimes to base 2 but those that pass,
\* neighbours that bring in further witnesses, and one modulus too large.
Moduli ==
  Request({"scalar"}, 0 .. 2100 \union {3277, 4093, 8191, 8321, 9377, 15841, 28181,
                        29341, 42799, 46337, 50021}, {0}, {"cyclic"}, {0}, {0})

\* Without a primality test q - 1 may be any number: all to 700, some with
\* many small primes, some with large ones, and powers.
Phis ==
  Request({"toy"}, {x + 1 : x \in 0 .. 700 \union
            {1155, 2187, 2310, 2401, 3125, 4199, 6561, 9973, 10201, 15015}},
          {1}, {"cyclic"}, {0}, {0})

\* All sizes and candidate roots for small primes, and the modulus of ML-KEM,
\* whose factors the table knows.
SmallRoots ==
  UNION {Request({"scalar"}, {q}, {0, 1, 2, 3, 4, 6, 8, 16},
           {"cyclic", "negacyclic", "other"}, 0 .. q + 1, 0 .. q + 1)
         : q \in {2, 3, 5, 7, 13, 17}}
    \union Request({"scalar"}, {41}, {1, 4}, {"cyclic", "negacyclic"},
                   {0, 3, 9, 14, 27, 32, 40}, {0, 3, 9, 14, 27, 32, 40})
    \union Request({"scalar"}, {3329}, {64, 128}, {"cyclic", "negacyclic"},
                   {0, 17, 289}, {0, 17, 289})

\* Every residue as omega, for primes with many factors of two in q - 1, and
\* for composite moduli, where the order of t may not be found.
Residues ==
  UNION {Request({"toy"}, {q}, {2, 4, 8, 16, 32, 64}, {"negacyclic"}, 0 .. q - 1, {0})
         : q \in {k \in 3 .. 49 : k % 2 = 1} \union {65, 85, 97, 105, 193}}

MCRequests == Moduli \union Phis \union SmallRoots \union Residues

\* Where the second witness fails too and the third is skipped.
Beyond == Request({"scalar"}, 4001 .. 4100, {0}, {"cyclic"}, {0}, {0})

\* Factoring any number of a word of 12 bits, with a stack of half as many
\* entries, as the code has 32 for 64 bits.
WordOfPhis == Request({"toy"}, 3 .. 2^12, {1}, {"cyclic"}, {0}, {0})

=============================================================================
