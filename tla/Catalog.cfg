CONSTANTS
  ProviderEntries <- MCProviderEntries
  Slug <- MCSlug
  KnownKeys <- MCKeys
  ModelFields <- MCModelFields
  Requests <- MCRequests
  MaxProviders = 2
  MaxFields = 5
SPECIFICATION CatalogSpec
INVARIANTS CatalogTypeOK ChosenCanServe ListingHonest
