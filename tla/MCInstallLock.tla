--------------------------- MODULE MCInstallLock ---------------------------
EXTENDS InstallLock, TLC

CONSTANTS bootstrap, update, rollback

MCInstaller == {bootstrap, update, rollback}
MCSymmetry == Permutations(MCInstaller)

=============================================================================
