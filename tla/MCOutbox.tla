------------------------------ MODULE MCOutbox ------------------------------
EXTENDS Outbox, TLC
Symmetry == Permutations(Worker) \cup Permutations(Publisher)

\* The run's properties speak of the time before the first overrun (all but
\* IdempotentAppend, which no worker touches), so it goes no further.
UpToOverrun == ~overrun

\* Threads that were given up on, and the effects they have, change no row and
\* no dispatch: states that differ in them alone have the same futures.
WithoutThreads ==
    <<row, nextRow, pub, receipts, up, batch, run, faults, tries, age, overrun>>
=============================================================================
