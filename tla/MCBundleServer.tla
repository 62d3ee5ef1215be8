--------------------------- MODULE MCBundleServer ---------------------------
EXTENDS BundleServer

\* One companion DUT.
OneDut == <<"companion">>
=============================================================================
