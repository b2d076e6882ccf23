------------------------------ MODULE MCScene -------------------------------
EXTENDS Scene
MCTracks == <<<<1, 0, 2>>, <<0, 1>>>>
MCLooks == [place : {1, 2}, uv : {NotYet} \cup
    UNION {{<<t, k>> : k \in DOMAIN MCTracks[t]} : t \in DOMAIN MCTracks}]
MCTitles == {<<>>, <<TRUE>>}
MCTexts == {<<TRUE, FALSE, TRUE>>, <<FALSE>>}
=============================================================================
