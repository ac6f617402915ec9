-------------------------- MODULE MCDirectSession --------------------------
EXTENDS DirectSession
\* Inputs of a Run: one tensor, two tensors with different numbers of
\* rows, a tensor with fewer rows than there are slices, and scalars as the
\* only input and as the second.
FewInputs   == {<<5>>}
MixedInputs == {<<3, 4>>, <<1>>, <<Scalar>>, <<1, Scalar>>}
\* DirectSessionMinusAXTest.TestFeed.
TestFeed    == {<<2>>}
=============================================================================
