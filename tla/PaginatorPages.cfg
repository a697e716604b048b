\* Lists of up to four pages of at most two items.
CONSTANT Lists <- MCLists
SPECIFICATION FairSpec
INVARIANT TypeOK InOrder AtMostOnce NothingLost EndIsEnd
PROPERTY Yields
