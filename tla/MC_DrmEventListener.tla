------------------------ MODULE MC_DrmEventListener ------------------------
EXTENDS DrmEventListener

\* The DRM fd stays quiet, or may become readable.
MC_DrmQuiet   == {FALSE}
MC_DrmActive  == BOOLEAN

=============================================================================
