---------------------------- MODULE MCController ----------------------------
EXTENDS Controller

\* The low byte of 200 is above 127, that of -71 too; 70 is no tilt yet.
ThreeTilts == {<<200, 0>>, <<-71, 71>>, <<0, 70>>}
=============================================================================
