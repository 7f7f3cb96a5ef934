\* Does Ctrl+C end the wizard?
SPECIFICATION FairSpec
PROPERTIES InterruptEndsWizard
CHECK_DEADLOCK FALSE
