SPECIFICATION Spec
CONSTANT Programs <- MCPrograms
INVARIANT ChannelsCarryWhatIsSent
CHECK_DEADLOCK FALSE
